---- MODULE Spec2Model ----
(***************************************************************************)
(* Model of the zenchi AniDB UDP client (src/zenchi/api.py).               *)
(*                                                                         *)
(* The client is single threaded.  A call of an operation (auth, logout,   *)
(* ping, calendar) runs the generic request/response cycle send(); send()  *)
(* calls itself and auth() recursively on the retry paths, so the model    *)
(* keeps the stack of active send() frames.  An activation of send() takes *)
(* two steps: up to socket.send, and from recv to its return, raise or     *)
(* recursive call.  The server and the UDP transport are the environment:  *)
(* a datagram may be lost, answered with any reply, or answered late.      *)
(***************************************************************************)
EXTENDS Integers, Sequences, FiniteSets, TLC

(* ------------------------------ bounds --------------------------------- *)

\* datagrams one operation call may send before the model stops following it
MaxSends == 6

\* datagrams or replies the transport holds at once; one more is lost
MaxInflight == 1

\* records in one GROUPSTATUS reply
MaxRecords == 3

\* characters of a text handed to crypto.pad or crypto.encrypt
MaxLen == 32

(* ------------------------- program constants --------------------------- *)

PUBLIC_COMMANDS == {"PING", "ENCRYPT", "ENCODING", "AUTH", "VERSION"}

PROTOVER_PARAMETER == 3

\* s.settimeout(30) in _listen_incoming_packets
RECV_TIMEOUT == 30

\* sleep(5) on 604
TIMEOUT_DELAY == 5

(* ----------------------------- environment ----------------------------- *)

\* session tokens the server hands out
Tokens == {"tokA", "tokB"}

\* salts the server answers ENCRYPT with
Salts == {"saltA", "saltB"}

\* encodings a caller asks for
Encodings == {"UTF8", "ascii"}

\* free-text reasons the server sends with 504 and 555
Reasons == {"leech", "abuse"}

\* status codes the server may answer with
ReplyCodes ==
    {200, 201, 203, 403, 300, 297, 397, 209, 309, 509, 394, 219, 519,
     501, 502, 503, 504, 505, 506, 555, 598, 600, 601, 602, 604, 999}

\* A raw reply is its status code, the space separated words that follow the
\* code on the first line, and the lines after the first.
MkReply(code, tok, reason) ==
    [code |-> code,
     head |-> CASE code \in {200, 201} -> <<tok, "LOGIN", "ACCEPTED">>
                [] code = 209 -> <<tok, "ENCRYPTION", "ENABLED">>
                [] code = 504 -> <<"CLIENT", "BANNED", "-", reason>>
                [] code = 555 -> <<"BANNED">>
                [] OTHER -> <<"TEXT">>,
     body |-> CASE code = 555 -> <<reason>>
                [] code = 297 -> <<"1|2|3">>
                [] OTHER -> <<>>]

\* keys a caller passes to encrypt()
ApiKeys == {"key"}

\* A datagram from the server is a reply as plain text, or a reply encrypted
\* under the key api_key + salt of an ENCRYPT the server accepted.
Ciphers == {<<>>} \cup {<<k, t>> : k \in ApiKeys, t \in Salts}

Replies ==
    {MkReply(c, t, "") : c \in {200, 201}, t \in Tokens}
    \cup {MkReply(c, "", r) : c \in {504, 555}, r \in Reasons}
    \cup {MkReply(209, t, "") : t \in Salts}
    \cup {MkReply(c, "", "") : c \in ReplyCodes \ {200, 201, 209, 504, 555}}

\* A reply with data: the data is the second line, fields separated by "|"
MkData(code, line) == [code |-> code, head |-> <<"TEXT">>, body |-> <<line>>]

\* a reply that carries a message only
MkMessage(code) == [code |-> code, head |-> <<"TEXT">>, body |-> <<>>]

\* the bits of the anime mask that callers ask for
RequestBits == {39, 53}

AnimeMasks == SUBSET RequestBits

\* The line of a 230 reply for each mask: the values of the bits asked for,
\* from the highest bit down.  Bit 53 is the year, bit 39 the episodes.
AnimeLines ==
    [m \in AnimeMasks |->
        CASE m = {} -> ""
          [] m = {53} -> "1999"
          [] m = {39} -> "26"
          [] m = {39, 53} -> "1999|26"]

\* the data line of the success reply of the other commands
AnimedescLine == "1|2|text"

CharacterLine == "1|kanji|romaji|pic|1,2,1,1|1,2|1999|1|F"

CreatorLine == "1|kanji|romaji|1|pic|urlen|urljp|wikien|wikijp|1999"

EpisodeLine == "1|1|26|800|2|S1|eng|romaji|kanji|1999|2"

\* a regular episode: its number carries no prefix
RegularEpisodeLine == "2|1|26|800|2|1|eng|romaji|kanji|1999|1"

UpdatedLine == "1|2|1999|1,2"

GroupLine == "1|800|2|26|26|name|short|chan|irc|url|pic|1999|1999|1|1999|1999|2,1'1,2"

\* records of a 225 GROUPSTATUS reply, and a record cut short where the
\* datagram ended
StatusLine == "1|name|1|26|800|2|1-26"

OtherStatusLine == "2|short|2|26|800|1|1-26"

CutStatusLine == "2|sho"

\* the lines after the first of a 225 reply: up to MaxRecords records, each
\* whole or cut
StatusBodies ==
    UNION {[1..n -> {StatusLine, OtherStatusLine, CutStatusLine}] : n \in 1..MaxRecords}

\* the replies of the server that are particular to a command
DataReplies(command) ==
    CASE command = "ANIME" ->
             {MkData(230, AnimeLines[m]) : m \in AnimeMasks} \cup {MkMessage(330)}
      [] command = "ANIMEDESC" -> {MkData(233, AnimedescLine), MkMessage(330)}
      [] command = "CHARACTER" -> {MkData(235, CharacterLine), MkMessage(335)}
      [] command = "CREATOR" -> {MkData(245, CreatorLine), MkMessage(345)}
      [] command = "EPISODE" -> {MkData(240, EpisodeLine), MkData(240, RegularEpisodeLine), MkMessage(340)}
      [] command = "UPDATED" -> {MkData(243, UpdatedLine), MkMessage(343)}
      [] command = "GROUP" -> {MkData(250, GroupLine), MkMessage(350)}
      [] command = "GROUPSTATUS" ->
             {[code |-> 225, head |-> <<"TEXT">>, body |-> b] : b \in StatusBodies}
             \cup {MkMessage(325), MkMessage(330)}
      [] OTHER -> {}

\* What a send() of a command may read.  A command with replies of its own
\* reads those, and of the replies common to all commands one of each way
\* send() goes on: 505 raises, 506 logs in again, 604 sleeps and re-sends.
RepliesTo(command) ==
    IF DataReplies(command) = {} THEN Replies
    ELSE DataReplies(command) \cup {MkReply(c, "", "") : c \in {505, 506, 604}}

\* line.split("|") for the lines the server sends
SplitBar ==
    [l \in {"", "26", "1999", "1999|26", AnimedescLine, CharacterLine, CreatorLine,
            EpisodeLine, RegularEpisodeLine, UpdatedLine, GroupLine, StatusLine,
            OtherStatusLine, CutStatusLine} |->
        CASE l = "" -> <<"">>
          [] l = "26" -> <<"26">>
          [] l = "1999" -> <<"1999">>
          [] l = "1999|26" -> <<"1999", "26">>
          [] l = AnimedescLine -> <<"1", "2", "text">>
          [] l = CharacterLine ->
                 <<"1", "kanji", "romaji", "pic", "1,2,1,1", "1,2", "1999", "1", "F">>
          [] l = CreatorLine ->
                 <<"1", "kanji", "romaji", "1", "pic", "urlen", "urljp", "wikien",
                   "wikijp", "1999">>
          [] l = EpisodeLine ->
                 <<"1", "1", "26", "800", "2", "S1", "eng", "romaji", "kanji", "1999",
                   "2">>
          [] l = RegularEpisodeLine ->
                 <<"2", "1", "26", "800", "2", "1", "eng", "romaji", "kanji", "1999",
                   "1">>
          [] l = StatusLine -> <<"1", "name", "1", "26", "800", "2", "1-26">>
          [] l = OtherStatusLine -> <<"2", "short", "2", "26", "800", "1", "1-26">>
          [] l = CutStatusLine -> <<"2", "sho">>
          [] l = UpdatedLine -> <<"1", "2", "1999", "1,2">>
          [] l = GroupLine ->
                 <<"1", "800", "2", "26", "26", "name", "short", "chan", "irc", "url",
                   "pic", "1999", "1999", "1", "1999", "1999", "2,1'1,2">>]

\* text.split("'") for the block lists the server sends
SplitQuote ==
    [t \in {"1,2,1,1", "2,1'1,2"} |->
        CASE t = "1,2,1,1" -> <<"1,2,1,1">>
          [] t = "2,1'1,2" -> <<"2,1", "1,2">>]

\* text.split(",") for the lists the server sends
SplitComma ==
    [t \in {"1,2,1,1", "1,2", "2,1"} |->
        CASE t = "1,2,1,1" -> <<"1", "2", "1", "1">>
          [] t = "1,2" -> <<"1", "2">>
          [] t = "2,1" -> <<"2", "1">>]

\* text[1:] for the episode numbers the server sends
AfterFirst == [t \in {"S1", "1"} |-> IF t = "S1" THEN "1" ELSE ""]

\* values of the settings module: every value is configured, or only the
\* server address is (the caller passes the credentials to auth), or none is
EnvConfigured ==
    [ANIDB_SERVER |-> "api.anidb.net", ANIDB_USERNAME |-> "envuser",
     ANIDB_PASSWORD |-> "envpass", ANIDB_ENCRYPT_API_KEY |-> "envkey",
     ZENCHI_CLIENTNAME |-> "envclient", ZENCHI_CLIENTVERSION |-> "1",
     MONGODB_URI |-> "mongodb://localhost:27017"]

EnvServerOnly ==
    [ANIDB_SERVER |-> "api.anidb.net", ANIDB_USERNAME |-> "", ANIDB_PASSWORD |-> "",
     ANIDB_ENCRYPT_API_KEY |-> "", ZENCHI_CLIENTNAME |-> "",
     ZENCHI_CLIENTVERSION |-> "", MONGODB_URI |-> "mongodb://localhost:27017"]

EnvEmpty ==
    [ANIDB_SERVER |-> "", ANIDB_USERNAME |-> "", ANIDB_PASSWORD |-> "",
     ANIDB_ENCRYPT_API_KEY |-> "", ZENCHI_CLIENTNAME |-> "",
     ZENCHI_CLIENTVERSION |-> "", MONGODB_URI |-> "mongodb://localhost:27017"]

(* ------------------------------- state --------------------------------- *)

VARIABLES
    settings,           \* zenchi.settings, fixed at import
    _session,           \* api._session
    _encryptedsession,  \* api._encryptedsession
    _encoding,          \* api._encoding
    _conn,              \* api._conn: TRUE once the socket exists
    aes,                \* crypto.aes: the key of the cipher object, if any
    mongo,              \* the document database: "up", "down" or "nodriver"
    _db,                \* cache._db: "None", "False" or "live"
    store,              \* the documents of the database, by collection and _id
    call,               \* the cache or data operation called last
    stack,              \* active send() frames, innermost last
    outcome,            \* how the last operation call ended
    sent,               \* number of datagrams the current operation call sent
    lastpkt,            \* the datagram sent last
    slept,              \* sleep() durations of the current operation call
    got,                \* the reply the active send() read, if it read one
    pending,            \* datagrams the server has not answered yet
    inbox               \* replies waiting in the socket

vars == <<settings, _session, _encryptedsession, _encoding, _conn, aes, mongo,
          _db, store, call, stack, outcome, sent, lastpkt, slept, got, pending,
          inbox>>

NoOutcome == [kind |-> "none", code |-> 0, data |-> <<>>, error |-> "", info |-> <<>>]

Returned(data, code) ==
    [kind |-> "return", code |-> code, data |-> data, error |-> "", info |-> <<>>]

Raised(error, info) ==
    [kind |-> "raise", code |-> 0, data |-> <<>>, error |-> error, info |-> info]

Top == stack[Len(stack)]

\* crypto.aes = None; also the form of a datagram that is not encrypted
NoCipher == <<>>

NoPacket == [command |-> "", args |-> <<>>, cipher |-> NoCipher, encoding |-> ""]

NoReply == [code |-> 0, head |-> <<>>, body |-> <<>>]

\* nothing read yet; cur tells whether a reply answers the datagram of the
\* send cycle that read it, cipher the key the datagram was encrypted under
NothingRead == [raw |-> NoReply, cur |-> TRUE, cipher |-> NoCipher]

\* the collections of the cache: one per command that uses it
Collections == {"ANIME", "ANIMEDESC", "CHARACTER", "CREATOR", "EPISODE", "GROUP"}

NoDocs == [k \in {} |-> <<>>]

NoCall == [op |-> "", args |-> <<>>]

\* the module globals after import, with an empty database
ModuleState ==
    /\ _db = "None"
    /\ store = [c \in Collections |-> NoDocs]
    /\ call = NoCall
    /\ _session = ""
    /\ _encryptedsession = FALSE
    /\ _encoding = "UTF8"
    /\ _conn = FALSE
    /\ aes = NoCipher
    /\ stack = <<>>
    /\ outcome = NoOutcome
    /\ sent = 0
    /\ lastpkt = NoPacket
    /\ slept = <<>>
    /\ got = NothingRead
    /\ pending = <<>>
    /\ inbox = <<>>

Init ==
    /\ settings \in {EnvConfigured, EnvServerOnly, EnvEmpty}
    /\ mongo = "up"
    /\ ModuleState

(* --------------------------- pure functions ---------------------------- *)

\* value_or_error(env_name, value): the value, else the setting, else
\* ValueError; settings.__dict__[env_name] raises KeyError for a name the
\* settings module does not define
value_or_error(env_name, value) ==
    IF value # "" THEN [ok |-> TRUE, value |-> value, error |-> ""]
    ELSE IF env_name \notin DOMAIN settings
        THEN [ok |-> FALSE, value |-> env_name, error |-> "KeyError"]
    ELSE IF settings[env_name] # ""
        THEN [ok |-> TRUE, value |-> settings[env_name], error |-> ""]
    ELSE [ok |-> FALSE, value |-> env_name, error |-> "ValueError"]

\* zenchi.codes.response_message: the fixed text of a status code
response_message(code) ==
    CASE code = 203 -> "LOGGED OUT"
      [] code = 403 -> "NOT LOGGED IN"
      [] code = 397 -> "CALENDAR EMPTY"
      [] code = 309 -> "API PASSWORD NOT DEFINED"
      [] code = 509 -> "NO SUCH ENCRYPTION TYPE"
      [] code = 394 -> "NO SUCH USER"
      [] code = 219 -> "ENCODING CHANGED"
      [] code = 519 -> "ENCODING NOT SUPPORTED"
      [] code = 330 -> "NO SUCH ANIME"
      [] code = 335 -> "NO SUCH CHARACTER"
      [] code = 345 -> "NO SUCH CREATOR"
      [] code = 340 -> "NO SUCH EPISODE"
      [] code = 343 -> "NO UPDATES"
      [] code = 350 -> "NO SUCH GROUP"
      [] code = 325 -> "NO SUCH GROUPS FOUND"
      [] OTHER -> "MESSAGE"

\* response.split(" ")[1]
SecondWord(response) == response.head[1]

\* response.splitlines()[1]
SecondLine(response) == response.body[1]

\* response.split("-")[1].strip(): the words between the first and the second "-"
RECURSIVE UpToDash(_)
UpToDash(words) ==
    IF words = <<>> \/ Head(words) = "-" THEN <<>>
    ELSE <<Head(words)>> \o UpToDash(Tail(words))

RECURSIVE AfterDash(_)
AfterDash(words) ==
    IF words = <<>> THEN <<>>
    ELSE IF Head(words) = "-" THEN Tail(words)
    ELSE AfterDash(Tail(words))

SecondDashPart(response) == UpToDash(AfterDash(response.head))

\* What a response handler does with a reply: a result, an exception, or
\* None; session is the value of _session after the handler ran.
CbResult(data, session) ==
    [kind |-> "result", data |-> data, error |-> "", info |-> <<>>, session |-> session]

CbRaise(error, info, session) ==
    [kind |-> "raise", data |-> <<>>, error |-> error, info |-> info, session |-> session]

CbNone(session) ==
    [kind |-> "none", data |-> <<>>, error |-> "", info |-> <<>>, session |-> session]

\* a result of a handler that also called crypto.setup(key) and set
\* _encryptedsession
CbCipher(data, session, key) ==
    [kind |-> "result", data |-> data, error |-> "", info |-> <<>>,
     session |-> session, aes |-> key]

\* a result of a handler that also called the cache, which left _db and the
\* documents as given
CbCache(data, session, db, docs) ==
    [kind |-> "result", data |-> data, error |-> "", info |-> <<>>,
     session |-> session, db |-> db, store |-> docs]

\* 201 (new version available) not treated as a login
auth_cb_only200(code, response, session) ==
    IF code = 503 THEN CbRaise("ClientOutdatedError", <<>>, session)
    ELSE IF code = 504 THEN CbRaise("ClientBannedError", SecondDashPart(response), session)
    ELSE IF code = 200
        THEN CbResult([session |-> SecondWord(response)], SecondWord(response))
    ELSE CbNone(session)

auth_cb(code, response, session) ==
    IF code = 503 THEN CbRaise("ClientOutdatedError", <<>>, session)
    ELSE IF code = 504 THEN CbRaise("ClientBannedError", SecondDashPart(response), session)
    ELSE IF code \in {200, 201}
        THEN CbResult([session |-> SecondWord(response)], SecondWord(response))
    ELSE CbNone(session)

\* 403 (not logged in) not treated as a logout
logout_cb_only203(code, response, session) ==
    IF code = 203 THEN CbResult([message |-> response_message(code)], "")
    ELSE IF code = 403 THEN CbResult([message |-> response_message(code)], session)
    ELSE CbNone(session)

logout_cb(code, response, session) ==
    IF code \in {403, 203} THEN CbResult([message |-> response_message(code)], "")
    ELSE CbNone(session)

ping_cb(code, response, session) ==
    IF code = 300 THEN CbResult(<<>>, session)
    ELSE CbNone(session)

\* the handler of calendar() dropping the session when the calendar is empty
calendar_cb_forgets(code, response, session) ==
    IF code = 397 THEN CbResult([message |-> response_message(code)], "")
    ELSE IF code = 297 THEN CbResult([calendar |-> response.body], session)
    ELSE CbNone(session)

calendar_cb(code, response, session) ==
    IF code = 397 THEN CbResult([message |-> response_message(code)], session)
    ELSE IF code = 297 THEN CbResult([calendar |-> response.body], session)
    ELSE CbNone(session)

\* the cipher built from the api key alone
encrypt_cb_keyonly(code, response, session, api_key) ==
    IF code \in {309, 509, 394} THEN CbResult([message |-> response_message(code)], session)
    ELSE IF code = 209
        THEN CbCipher([salt |-> SecondWord(response)], session, <<api_key, "">>)
    ELSE CbNone(session)

\* the cipher built from the salt alone
encrypt_cb_saltonly(code, response, session, api_key) ==
    IF code \in {309, 509, 394} THEN CbResult([message |-> response_message(code)], session)
    ELSE IF code = 209
        THEN CbCipher([salt |-> SecondWord(response)], session,
                      <<"", SecondWord(response)>>)
    ELSE CbNone(session)

\* the handler of encrypt(): on 209 it builds the cipher from api_key + salt
\* and marks the session encrypted
encrypt_cb(code, response, session, api_key) ==
    IF code \in {309, 509, 394} THEN CbResult([message |-> response_message(code)], session)
    ELSE IF code = 209
        THEN CbCipher([salt |-> SecondWord(response)], session,
                      <<api_key, SecondWord(response)>>)
    ELSE CbNone(session)

encoding_cb(code, response, session) ==
    IF code \in {519, 219} THEN CbResult([message |-> response_message(code)], session)
    ELSE CbNone(session)

NoArgs == [k \in {} |-> ""]

\* a response handler is a closure: the function and the variables of the
\* operation that it captured
Cb(name) == [name |-> name, captured |-> NoArgs]

Closure(name, captured) == [name |-> name, captured |-> captured]

\* send(), after the handler returned None: the generic classifier
DoRaise(error, info) == [act |-> "raise", error |-> error, info |-> info, secs |-> 0]
DoAuth == [act |-> "auth", error |-> "", info |-> <<>>, secs |-> 0]
DoSleep(secs) == [act |-> "sleep", error |-> "", info |-> <<>>, secs |-> secs]

\* 501 not recognised: falls through to the last raise
Classify_no501(code, response, args) ==
    IF code = 505 THEN DoRaise("IllegalParameterError", <<>>)
    ELSE IF code = 598 THEN DoRaise("IllegalCommandError", <<>>)
    ELSE IF code = 555 THEN DoRaise("BannedError", SecondLine(response))
    ELSE IF code = 502 THEN DoRaise("InvalidCredentialsError", <<>>)
    ELSE IF code \in {600, 601, 602} THEN DoRaise("ServerUnavailableError", code)
    ELSE IF code = 506
        THEN IF "s" \in DOMAIN args THEN DoAuth
             ELSE DoRaise("InvalidSessionError", <<>>)
    ELSE IF code = 604 THEN DoSleep(TIMEOUT_DELAY)
    ELSE DoRaise("UnhandledResponseError", response)

\* 604 handled like the busy codes: raised instead of slept on
Classify_604raises(code, response, args) ==
    IF code = 505 THEN DoRaise("IllegalParameterError", <<>>)
    ELSE IF code = 598 THEN DoRaise("IllegalCommandError", <<>>)
    ELSE IF code = 555 THEN DoRaise("BannedError", SecondLine(response))
    ELSE IF code = 502 THEN DoRaise("InvalidCredentialsError", <<>>)
    ELSE IF code \in {600, 601, 602, 604} THEN DoRaise("ServerUnavailableError", code)
    ELSE IF code = 501 THEN DoAuth
    ELSE IF code = 506
        THEN IF "s" \in DOMAIN args THEN DoAuth
             ELSE DoRaise("InvalidSessionError", <<>>)
    ELSE DoRaise("UnhandledResponseError", response)

\* the ban reason taken from the first line of the reply
Classify_firstline(code, response, args) ==
    IF code = 505 THEN DoRaise("IllegalParameterError", <<>>)
    ELSE IF code = 598 THEN DoRaise("IllegalCommandError", <<>>)
    ELSE IF code = 555 THEN DoRaise("BannedError", response.head[1])
    ELSE IF code = 502 THEN DoRaise("InvalidCredentialsError", <<>>)
    ELSE IF code \in {600, 601, 602} THEN DoRaise("ServerUnavailableError", code)
    ELSE IF code = 501 THEN DoAuth
    ELSE IF code = 506
        THEN IF "s" \in DOMAIN args THEN DoAuth
             ELSE DoRaise("InvalidSessionError", <<>>)
    ELSE IF code = 604 THEN DoSleep(TIMEOUT_DELAY)
    ELSE DoRaise("UnhandledResponseError", response)

\* 506 treated like 501 whatever the parameters
Classify_506auth(code, response, args) ==
    IF code = 505 THEN DoRaise("IllegalParameterError", <<>>)
    ELSE IF code = 598 THEN DoRaise("IllegalCommandError", <<>>)
    ELSE IF code = 555 THEN DoRaise("BannedError", SecondLine(response))
    ELSE IF code = 502 THEN DoRaise("InvalidCredentialsError", <<>>)
    ELSE IF code \in {600, 601, 602} THEN DoRaise("ServerUnavailableError", code)
    ELSE IF code \in {501, 506} THEN DoAuth
    ELSE IF code = 604 THEN DoSleep(TIMEOUT_DELAY)
    ELSE DoRaise("UnhandledResponseError", response)

\* the unhandled reply reported by its first line only
Classify_firstlineonly(code, response, args) ==
    IF code = 505 THEN DoRaise("IllegalParameterError", <<>>)
    ELSE IF code = 598 THEN DoRaise("IllegalCommandError", <<>>)
    ELSE IF code = 555 THEN DoRaise("BannedError", SecondLine(response))
    ELSE IF code = 502 THEN DoRaise("InvalidCredentialsError", <<>>)
    ELSE IF code \in {600, 601, 602} THEN DoRaise("ServerUnavailableError", code)
    ELSE IF code = 501 THEN DoAuth
    ELSE IF code = 506
        THEN IF "s" \in DOMAIN args THEN DoAuth
             ELSE DoRaise("InvalidSessionError", <<>>)
    ELSE IF code = 604 THEN DoSleep(TIMEOUT_DELAY)
    ELSE DoRaise("UnhandledResponseError", [response EXCEPT !.body = <<>>])

Classify(code, response, args) ==
    IF code = 505 THEN DoRaise("IllegalParameterError", <<>>)
    ELSE IF code = 598 THEN DoRaise("IllegalCommandError", <<>>)
    ELSE IF code = 555 THEN DoRaise("BannedError", SecondLine(response))
    ELSE IF code = 502 THEN DoRaise("InvalidCredentialsError", <<>>)
    ELSE IF code \in {600, 601, 602} THEN DoRaise("ServerUnavailableError", code)
    ELSE IF code = 501 THEN DoAuth
    ELSE IF code = 506
        THEN IF "s" \in DOMAIN args THEN DoAuth
             ELSE DoRaise("InvalidSessionError", <<>>)
    ELSE IF code = 604 THEN DoSleep(TIMEOUT_DELAY)
    ELSE DoRaise("UnhandledResponseError", response)

\* the socket left blocking: no settimeout
_listen_incoming_packets_blocking(box) ==
    IF box # <<>> THEN "data" ELSE "block"

\* next(_listen_incoming_packets()): recv returns the oldest datagram in the
\* socket, or raises socket.timeout once RECV_TIMEOUT seconds passed without one
_listen_incoming_packets(box) ==
    IF box # <<>> THEN "data" ELSE "timeout"

\* crypto.encrypt(data, _encoding) or data.encode(_encoding): the key the
\* datagram is encrypted under, NoCipher when it is sent as plain text
Encoded(encrypted, key) == IF encrypted THEN key ELSE NoCipher

\* crypto.decrypt(raw_response, _encoding) or raw_response.decode(_encoding):
\* the text of a datagram that came in the form the client expects; any
\* other datagram gives bytes that do not decode to a reply
Decodes(cipher, encrypted, key) == cipher = Encoded(encrypted, key)

\* the parameters auth() builds, or the setting it misses
AuthData(username, password, client_name, client_version, encoding) ==
    LET u == value_or_error("ANIDB_USERNAME", username)
        p == value_or_error("ANIDB_PASSWORD", password)
        c == value_or_error("ZENCHI_CLIENTNAME", client_name)
        v == value_or_error("ZENCHI_CLIENTVERSION", client_version)
    IN  IF ~u.ok THEN [ok |-> FALSE, missing |-> u.value, data |-> <<>>]
        ELSE IF ~p.ok THEN [ok |-> FALSE, missing |-> p.value, data |-> <<>>]
        ELSE IF ~c.ok THEN [ok |-> FALSE, missing |-> c.value, data |-> <<>>]
        ELSE IF ~v.ok THEN [ok |-> FALSE, missing |-> v.value, data |-> <<>>]
        ELSE [ok |-> TRUE, missing |-> "",
              data |-> [user |-> u.value, pass |-> p.value, client |-> c.value,
                        clientver |-> v.value, protover |-> PROTOVER_PARAMETER,
                        enc |-> encoding]]

(* ------------------------------- crypto -------------------------------- *)

\* A text is the sequence of the code points of its characters, a bytes
\* object the sequence of its bytes.

BS == 16

\* pads nothing when the length is a multiple of BS already
pad_exact(s) ==
    LET fill == (BS - (Len(s) % BS)) % BS
    IN  s \o [i \in 1..fill |-> fill]

\* crypto.pad(s): s + (BS - len(s) % BS) * chr(BS - len(s) % BS)
pad(s) ==
    LET fill == BS - (Len(s) % BS)
    IN  s \o [i \in 1..fill |-> fill]

\* crypto.unpad(s): s[0: -ord(s[-1])]; s[-1] of an empty text raises
\* IndexError, and the slice s[0:-0] is empty
unpad(s) ==
    IF s = <<>> THEN [ok |-> FALSE, error |-> "IndexError", value |-> <<>>]
    ELSE LET n == s[Len(s)]
             end == IF n = 0 \/ n > Len(s) THEN 0 ELSE Len(s) - n
         IN  [ok |-> TRUE, error |-> "", value |-> SubSeq(s, 1, end)]

\* the bytes of one character below U+0800 in UTF-8
Utf8(c) == IF c < 128 THEN <<c>> ELSE <<192 + (c \div 64), 128 + (c % 64)>>

RECURSIVE Utf8All(_)
Utf8All(text) == IF text = <<>> THEN <<>> ELSE Utf8(Head(text)) \o Utf8All(Tail(text))

\* bytes(message, encoding)
encode(text, encoding) ==
    IF encoding = "UTF8"
    THEN [ok |-> TRUE, error |-> "", value |-> Utf8All(text)]
    ELSE IF \E i \in DOMAIN text : text[i] >= 128
        THEN [ok |-> FALSE, error |-> "UnicodeEncodeError", value |-> <<>>]
    ELSE [ok |-> TRUE, error |-> "", value |-> text]

\* the characters of UTF-8 bytes; -1 marks a byte that starts no character
RECURSIVE FromUtf8(_)
FromUtf8(data) ==
    IF data = <<>> THEN <<>>
    ELSE IF Head(data) < 128 THEN <<Head(data)>> \o FromUtf8(Tail(data))
    ELSE IF /\ Head(data) \in 194..223
            /\ Len(data) >= 2
            /\ data[2] \in 128..191
        THEN <<(Head(data) - 192) * 64 + (data[2] - 128)>> \o FromUtf8(Tail(Tail(data)))
    ELSE <<-1>>

\* plain_bytes.decode(encoding)
decode(data, encoding) ==
    LET text == IF encoding = "UTF8" THEN FromUtf8(data) ELSE data
    IN  IF \E i \in DOMAIN text : text[i] < 0 \/ (encoding # "UTF8" /\ text[i] >= 128)
        THEN [ok |-> FALSE, error |-> "UnicodeDecodeError", value |-> <<>>]
        ELSE [ok |-> TRUE, error |-> "", value |-> text]

\* crypto.encrypt(message, encoding) with the module's aes being cipher: the
\* message is padded by its characters, then encoded; AES in ECB mode takes
\* only whole blocks of BS bytes and raises ValueError for any other length.
\* The encrypted bytes are known by the key and the plain bytes they hide.
encrypt(message, encoding, cipher) ==
    LET bytes_message == encode(pad(message), encoding)
    IN  IF ~bytes_message.ok
        THEN [ok |-> FALSE, error |-> bytes_message.error, value |-> <<>>]
        ELSE IF cipher = NoCipher
        THEN [ok |-> FALSE, error |-> "AttributeError", value |-> <<>>]
        ELSE IF Len(bytes_message.value) % BS # 0
        THEN [ok |-> FALSE, error |-> "ValueError", value |-> <<>>]
        ELSE [ok |-> TRUE, error |-> "",
              value |-> [key |-> cipher, plain |-> bytes_message.value]]

\* crypto.decrypt(message, encoding) of bytes encrypted under the key of cipher
decrypt(message, encoding, cipher) ==
    LET padded_plain == decode(message.plain, encoding)
        text == unpad(padded_plain.value)
    IN  IF cipher = NoCipher
        THEN [ok |-> FALSE, error |-> "AttributeError", value |-> <<>>]
        ELSE IF ~padded_plain.ok
        THEN [ok |-> FALSE, error |-> padded_plain.error, value |-> <<>>]
        ELSE text

(* ------------------------------- cache --------------------------------- *)

\* settings.value_or_error(env_name, value): the value, else the setting
\* (getattr, None for an unknown name), else ValueError
settings_value_or_error(env_name, value) ==
    IF value # "" THEN [ok |-> TRUE, value |-> value]
    ELSE IF env_name \in DOMAIN settings /\ settings[env_name] # ""
        THEN [ok |-> TRUE, value |-> settings[env_name]]
    ELSE [ok |-> FALSE, value |-> env_name]

\* a failed liveness probe let through to the caller
setup_probe_raises(uri) ==
    LET mongo_uri == settings_value_or_error("MONGODB_URI", uri)
    IN  IF ~mongo_uri.ok \/ mongo = "down" THEN [ok |-> FALSE, db |-> _db]
        ELSE [ok |-> TRUE, db |-> IF mongo = "up" THEN "live" ELSE "False"]

\* cache.setup(uri): the value it leaves in _db and returns.  MongoClient
\* raises NameError without the driver and the ismaster probe raises
\* ConnectionFailure without a server; both are caught and give False.
setup(uri) ==
    LET mongo_uri == settings_value_or_error("MONGODB_URI", uri)
    IN  IF ~mongo_uri.ok THEN [ok |-> FALSE, db |-> _db]
        ELSE [ok |-> TRUE, db |-> IF mongo = "up" THEN "live" ELSE "False"]

\* cache._get_connection(): connects on first use
_get_connection ==
    IF _db = "None" THEN setup("") ELSE [ok |-> TRUE, db |-> _db]

\* dict(_id=id): the filter restore() builds from an id that is not a dict
ById(id) == [_id |-> id]

\* the _ids of the documents of a collection that a filter selects
Matching(collection, filter) ==
    {i \in DOMAIN store[collection] :
        \A f \in DOMAIN filter :
            /\ f \in DOMAIN store[collection][i]
            /\ store[collection][i][f] = filter[f]}

\* the projection dict(_id=0)
WithoutId(doc) == [f \in DOMAIN doc \ {"_id"} |-> doc[f]]

\* cache.restore(collection, id): the document, or None (found = FALSE)
\* when there is no connection or no document; db is _db after the call
restore(collection, filter) ==
    LET c == _get_connection
        m == Matching(collection, filter)
    IN  IF ~c.ok THEN [ok |-> FALSE, db |-> _db, found |-> FALSE, doc |-> <<>>]
        ELSE IF c.db # "live" \/ m = {}
            THEN [ok |-> TRUE, db |-> c.db, found |-> FALSE, doc |-> <<>>]
        ELSE [ok |-> TRUE, db |-> c.db, found |-> TRUE,
              doc |-> WithoutId(store[collection][CHOOSE i \in m : TRUE])]

\* datetime.now()
Now == "now"

\* data["updated_at"] = datetime.now()
Stamped(data) ==
    [f \in DOMAIN data \cup {"updated_at"} |->
        IF f = "updated_at" THEN Now ELSE data[f]]

\* the upsert written as a replacement of the stored document
Upserted_replace(old, data) ==
    [f \in {"_id"} \cup DOMAIN data |-> IF f \in DOMAIN data THEN data[f] ELSE old[f]]

\* update_one(dict(_id=id), {"$set": data}, upsert=True): the fields of data
\* are set on the stored document, which is created when it is missing
Upserted(old, data) ==
    [f \in DOMAIN old \cup DOMAIN data |-> IF f \in DOMAIN data THEN data[f] ELSE old[f]]

\* updated_at stamped on the data before the connection is looked at
update_stamps_first(collection, id, data) ==
    LET c == _get_connection
        old == IF id \in DOMAIN store[collection] THEN store[collection][id]
               ELSE ById(id)
        new == Upserted(old, Stamped(data))
    IN  IF ~c.ok
        THEN [ok |-> FALSE, db |-> _db, store |-> store, doc |-> data, data |-> data]
        ELSE IF c.db # "live"
            THEN [ok |-> TRUE, db |-> c.db, store |-> store, doc |-> Stamped(data),
                  data |-> Stamped(data)]
        ELSE [ok |-> TRUE, db |-> c.db,
              store |-> [store EXCEPT ![collection] = (id :> new) @@ @],
              doc |-> WithoutId(new), data |-> Stamped(data)]

\* update() that returns the data without writing the document
update_unsaved(collection, id, data) ==
    LET c == _get_connection
    IN  IF ~c.ok
        THEN [ok |-> FALSE, db |-> _db, store |-> store, doc |-> data, data |-> data]
        ELSE [ok |-> TRUE, db |-> c.db, store |-> store, doc |-> data, data |-> data]

\* cache.update(collection, id, data): doc is what it returns, data the
\* dictionary it was given as the call leaves it, db and store the cache after
update(collection, id, data) ==
    LET c == _get_connection
        old == IF id \in DOMAIN store[collection] THEN store[collection][id]
               ELSE ById(id)
        new == Upserted(old, Stamped(data))
    IN  IF ~c.ok
        THEN [ok |-> FALSE, db |-> _db, store |-> store, doc |-> data, data |-> data]
        ELSE IF c.db # "live"
            THEN [ok |-> TRUE, db |-> c.db, store |-> store, doc |-> data, data |-> data]
        ELSE [ok |-> TRUE, db |-> c.db,
              store |-> [store EXCEPT ![collection] = (id :> new) @@ @],
              doc |-> WithoutId(new), data |-> Stamped(data)]

(* ------------------------------ mappings ------------------------------- *)

\* A mask is modelled by the set of the positions of its bits (0 is the
\* lowest): 1 << 5 << 48 is {53}.  mappings.anime.lookup: the field name and
\* the conversion of each bit that names a field; 16 of the 56 positions
\* name none.
lookup ==
    (55 :> [text |-> "aid", function |-> "int"])
    @@ (54 :> [text |-> "date_flags", function |-> "int"])
    @@ (53 :> [text |-> "year", function |-> "str"])
    @@ (52 :> [text |-> "type", function |-> "str"])
    @@ (51 :> [text |-> "related_aid_list", function |-> "str_list"])
    @@ (50 :> [text |-> "related_aid_type", function |-> "str"])
    @@ (47 :> [text |-> "romaji_name", function |-> "str"])
    @@ (46 :> [text |-> "kanji_name", function |-> "str"])
    @@ (45 :> [text |-> "english_name", function |-> "str"])
    @@ (44 :> [text |-> "other_name", function |-> "str"])
    @@ (43 :> [text |-> "short_name", function |-> "str_list"])
    @@ (42 :> [text |-> "synonym_list", function |-> "str_list"])
    @@ (39 :> [text |-> "episodes", function |-> "int"])
    @@ (38 :> [text |-> "highest_episode_number", function |-> "int"])
    @@ (37 :> [text |-> "special_ep_count", function |-> "int"])
    @@ (36 :> [text |-> "air_date", function |-> "int"])
    @@ (35 :> [text |-> "end_date", function |-> "int"])
    @@ (34 :> [text |-> "url", function |-> "str"])
    @@ (33 :> [text |-> "picname", function |-> "str"])
    @@ (31 :> [text |-> "rating", function |-> "int"])
    @@ (30 :> [text |-> "vote_count", function |-> "int"])
    @@ (29 :> [text |-> "temp_rating", function |-> "int"])
    @@ (28 :> [text |-> "temp_vote", function |-> "int"])
    @@ (27 :> [text |-> "averate_view_rating", function |-> "int"])
    @@ (26 :> [text |-> "review_count", function |-> "int"])
    @@ (25 :> [text |-> "award_list", function |-> "str"])
    @@ (24 :> [text |-> "is_18_restricted", function |-> "to_bool"])
    @@ (22 :> [text |-> "ann_id", function |-> "int"])
    @@ (21 :> [text |-> "allcinema_id", function |-> "int"])
    @@ (20 :> [text |-> "anime_nfo_id", function |-> "str"])
    @@ (19 :> [text |-> "tag_name_list", function |-> "str_list"])
    @@ (18 :> [text |-> "tag_id_list", function |-> "int_list"])
    @@ (17 :> [text |-> "tag_weight_list", function |-> "int_list"])
    @@ (16 :> [text |-> "date_record_updated", function |-> "int"])
    @@ (15 :> [text |-> "character_id_list", function |-> "int_list"])
    @@ (7 :> [text |-> "specials_count", function |-> "int"])
    @@ (6 :> [text |-> "credits_count", function |-> "int"])
    @@ (5 :> [text |-> "other_count", function |-> "int"])
    @@ (4 :> [text |-> "trailer_count", function |-> "int"])
    @@ (3 :> [text |-> "parody_count", function |-> "int"])

\* the bits of range(56)
MaskRange == 0..55

\* int(text) for the numerals that occur
IntOf ==
    [t \in {"1", "2", "26", "800", "1999"} |->
        CASE t = "1" -> 1 [] t = "2" -> 2 [] t = "26" -> 26 [] t = "800" -> 800
          [] t = "1999" -> 1999]

\* int(text): the number, or ValueError (ok = FALSE)
int(text) ==
    IF text \in DOMAIN IntOf THEN [ok |-> TRUE, value |-> IntOf[text]]
    ELSE [ok |-> FALSE, value |-> text]

\* every part named converts with int()
AllInts(parts, indexes) == \A i \in indexes : int(parts[i]).ok

\* conversions.str_list(data): data.split(",")
str_list(data) == IF data \in DOMAIN SplitComma THEN SplitComma[data] ELSE <<data>>

\* conversions.int_list(data)
int_list(data) ==
    LET listed == str_list(data)
    IN  IF listed[1] = "" THEN [ok |-> TRUE, value |-> <<>>]
        ELSE IF ~AllInts(listed, DOMAIN listed) THEN [ok |-> FALSE, value |-> <<>>]
        ELSE [ok |-> TRUE, value |-> [i \in DOMAIN listed |-> int(listed[i]).value]]

\* conversions.to_bool(data): only "1" is True
to_bool(data) == data = "1"

\* function(text) for the conversions that lookup names; int and int_list
\* raise ValueError (ok = FALSE) for a text that is not a number
Converted(function, text) ==
    CASE function = "str" -> [ok |-> TRUE, value |-> text]
      [] function = "int" -> int(text)
      [] function = "str_list" -> [ok |-> TRUE, value |-> str_list(text)]
      [] function = "int_list" -> int_list(text)
      [] function = "to_bool" -> [ok |-> TRUE, value |-> to_bool(text)]

\* the bits of a mask from the lowest up, the order of for i in range(56)
RECURSIVE Ascending(_)
Ascending(bits) ==
    IF bits = {} THEN <<>>
    ELSE LET low == CHOOSE b \in bits : \A c \in bits : b <= c
         IN  <<low>> \o Ascending(bits \ {low})

\* the parts handed out from the first one up instead of from the last one down
parse_response_forward(input, parts) ==
    LET bits == Ascending(input \cap MaskRange)
        n == IF Len(bits) < Len(parts) THEN Len(bits) ELSE Len(parts)
        used == 1..n
        value(j) == Converted(lookup[bits[j]].function, parts[j])
    IN  IF \E j \in used : bits[j] \notin DOMAIN lookup
        THEN [ok |-> FALSE, error |-> "KeyError", result |-> <<>>]
        ELSE IF \E j \in used : ~value(j).ok
        THEN [ok |-> FALSE, error |-> "ValueError", result |-> <<>>]
        ELSE [ok |-> TRUE, error |-> "",
              result |-> [t \in {lookup[bits[j]].text : j \in used} |->
                             value(CHOOSE j \in used : lookup[bits[j]].text = t).value]]

\* no break when the parts are used up: the next bit indexes past the line
parse_response_nobreak(input, parts) ==
    LET bits == Ascending(input \cap MaskRange)
        used == 1..Len(bits)
        value(j) == Converted(lookup[bits[j]].function, parts[Len(parts) + 1 - j])
    IN  IF Len(parts) < Len(bits)
        THEN [ok |-> FALSE, error |-> "IndexError", result |-> <<>>]
        ELSE IF \E j \in used : bits[j] \notin DOMAIN lookup
        THEN [ok |-> FALSE, error |-> "KeyError", result |-> <<>>]
        ELSE IF \E j \in used : ~value(j).ok
        THEN [ok |-> FALSE, error |-> "ValueError", result |-> <<>>]
        ELSE [ok |-> TRUE, error |-> "",
              result |-> [t \in {lookup[bits[j]].text : j \in used} |->
                             value(CHOOSE j \in used : lookup[bits[j]].text = t).value]]

\* mappings.anime.parse_response(input, response): the bits of input from
\* the lowest up take the parts of the line from the last one down, until the
\* parts are used up; parts is response.split("|")
parse_response(input, parts) ==
    LET bits == Ascending(input \cap MaskRange)
        n == IF Len(bits) < Len(parts) THEN Len(bits) ELSE Len(parts)
        used == 1..n
        value(j) == Converted(lookup[bits[j]].function, parts[Len(parts) + 1 - j])
        fails(j) == bits[j] \notin DOMAIN lookup \/ ~value(j).ok
        first == CHOOSE j \in used : fails(j) /\ \A i \in 1..(j - 1) : ~fails(i)
    IN  IF \E j \in used : fails(j)
        THEN [ok |-> FALSE,
              error |-> IF bits[first] \notin DOMAIN lookup THEN "KeyError"
                        ELSE "ValueError",
              result |-> <<>>]
        ELSE [ok |-> TRUE, error |-> "",
              result |-> [t \in {lookup[bits[j]].text : j \in used} |->
                             value(CHOOSE j \in used : lookup[bits[j]].text = t).value]]

\* the mask handed back as it came, whatever the cache holds
filter_cached_unfiltered(input, aid) ==
    LET entry == restore("ANIME", ById(aid))
    IN  [ok |-> TRUE, error |-> "",
         db |-> IF aid = 0 THEN _db ELSE entry.db, mask |-> input]

\* every bit cleared as soon as the cache holds an entry
filter_cached_clearsall(input, aid) ==
    LET entry == restore("ANIME", ById(aid))
    IN  IF aid = 0 THEN [ok |-> TRUE, error |-> "", db |-> _db, mask |-> input]
        ELSE [ok |-> TRUE, error |-> "", db |-> entry.db,
              mask |-> IF entry.found THEN {} ELSE input]

\* mappings.anime.filter_cached(input, aid): the mask without the bits whose
\* field the cached entry of aid holds; db is _db after the call
filter_cached(input, aid) ==
    LET entry == restore("ANIME", ById(aid))
        bits == input \cap MaskRange
    IN  IF aid = 0 THEN [ok |-> TRUE, error |-> "", db |-> _db, mask |-> input]
        ELSE IF ~entry.ok
            THEN [ok |-> FALSE, error |-> "ValueError", db |-> _db, mask |-> input]
        ELSE IF ~entry.found
            THEN [ok |-> TRUE, error |-> "", db |-> entry.db, mask |-> input]
        ELSE IF \E b \in bits : b \notin DOMAIN lookup
            THEN [ok |-> FALSE, error |-> "KeyError", db |-> entry.db, mask |-> input]
        ELSE [ok |-> TRUE, error |-> "", db |-> entry.db,
              mask |-> input \ {b \in bits : lookup[b].text \in DOMAIN entry.doc}]

(* --------------------------- data handlers ----------------------------- *)

\* the handler of anime(): the line of a 230 is parsed against amask, the mask
\* the caller gave, and with an aid the result goes through cache.update
anime_cb(code, response, session, amask, aid) ==
    IF code = 330 THEN CbResult([message |-> response_message(code)], session)
    ELSE IF code = 230
        THEN LET p == parse_response(amask, SplitBar[SecondLine(response)])
                 u == update("ANIME", aid, p.result)
             IN  IF ~p.ok THEN CbRaise(p.error, <<>>, session)
                 ELSE IF aid = 0 THEN CbResult(p.result, session)
                 ELSE IF ~u.ok THEN CbRaise("ValueError", "MONGODB_URI", session)
                 ELSE CbCache(u.doc, session, u.db, u.store)
    ELSE CbNone(session)

\* what a handler does once it has built result from the parts of the line,
\* or failed to: IndexError for a part that is missing, ValueError for a part
\* that does not convert; stored is what cache.update(command, id, result)
\* gave, and the handler returns the document update returned (returns_doc)
\* or result itself, which update has stamped
Parsed(parts, fields, converts, session, stored, returns_doc) ==
    IF Len(parts) < fields THEN CbRaise("IndexError", <<>>, session)
    ELSE IF ~converts THEN CbRaise("ValueError", <<>>, session)
    ELSE IF ~stored.ok THEN CbRaise("ValueError", "MONGODB_URI", session)
    ELSE CbCache(IF returns_doc THEN stored.doc ELSE stored.data, session,
                 stored.db, stored.store)

\* the handler of animedesc(): id is f"{aid}|{part}" of the call
animedesc_cb(code, response, session, id) ==
    IF code = 330 THEN CbResult([message |-> response_message(code)], session)
    ELSE IF code = 233
        THEN LET parts == SplitBar[SecondLine(response)]
                 result == [current_part |-> int(parts[1]).value,
                            max_parts |-> int(parts[2]).value,
                            description |-> parts[3]]
             IN  Parsed(parts, 3, AllInts(parts, {1, 2}), session,
                        update("ANIMEDESC", id, result), FALSE)
    ELSE CbNone(session)

\* the handler of character()
character_cb(code, response, session, charid) ==
    IF code = 335 THEN CbResult([message |-> response_message(code)], session)
    ELSE IF code = 235
        THEN LET data == SplitBar[SecondLine(response)]
                 raw_blocks == SplitQuote[data[5]]
                 block(i) == SplitComma[raw_blocks[i]]
                 episode_list == int_list(data[6])
                 result ==
                     [charid |-> int(data[1]).value,
                      name_kanji |-> data[2],
                      name_transcription |-> data[3],
                      pic |-> data[4],
                      episode_list |-> episode_list.value,
                      last_updated_date |-> int(data[7]).value,
                      type |-> int(data[8]).value,
                      gender |-> data[9],
                      anime_blocks |->
                          [i \in DOMAIN raw_blocks |->
                              [anime_id |-> int(block(i)[1]).value,
                               appearance |-> int(block(i)[2]).value,
                               creator_id |-> int(block(i)[3]).value,
                               is_main_seyuu |->
                                   IF block(i)[4] # "" THEN "True" ELSE "None"]]]
             IN  Parsed(data, 9,
                        /\ AllInts(data, {1, 7, 8})
                        /\ episode_list.ok
                        /\ \A i \in DOMAIN raw_blocks :
                               Len(block(i)) >= 4 /\ AllInts(block(i), {1, 2, 3}),
                        session, update("CHARACTER", charid, result), TRUE)
    ELSE CbNone(session)

\* the handler of creator() storing the message of 345 as well
creator_cb_storesmessage(code, response, session, creatorid) ==
    IF code = 345
    THEN LET stored == update("CREATOR", creatorid, [message |-> response_message(code)])
         IN  CbCache(stored.data, session, stored.db, stored.store)
    ELSE CbNone(session)

\* the handler of creator()
creator_cb(code, response, session, creatorid) ==
    IF code = 345 THEN CbResult([message |-> response_message(code)], session)
    ELSE IF code = 245
        THEN LET parts == SplitBar[SecondLine(response)]
                 result ==
                     [creatorid |-> int(parts[1]).value,
                      creator_name_kanji |-> parts[2],
                      creator_name_transcription |-> parts[3],
                      type |-> int(parts[4]).value,
                      pic_name |-> parts[5],
                      url_english |-> parts[6],
                      url_japanese |-> parts[7],
                      wiki_url_english |-> parts[8],
                      wiki_url_japanese |-> parts[9],
                      last_update_date |-> int(parts[10]).value]
             IN  Parsed(parts, 10, AllInts(parts, {1, 4, 10}), session,
                        update("CREATOR", creatorid, result), FALSE)
    ELSE CbNone(session)

\* the handler of episode(): the document is stored under the eid of the reply
episode_cb(code, response, session) ==
    IF code = 340 THEN CbResult([message |-> response_message(code)], session)
    ELSE IF code = 240
        THEN LET parts == SplitBar[SecondLine(response)]
                 number == IF parts[6] \in DOMAIN AfterFirst
                           THEN int(AfterFirst[parts[6]])
                           ELSE int("")
                 result ==
                     [eid |-> int(parts[1]).value,
                      aid |-> int(parts[2]).value,
                      length |-> int(parts[3]).value,
                      rating |-> int(parts[4]).value,
                      votes |-> int(parts[5]).value,
                      epno |-> parts[6],
                      eng |-> parts[7],
                      romaji |-> parts[8],
                      kanji |-> parts[9],
                      aired |-> int(parts[10]).value,
                      type |-> int(parts[11]).value,
                      episode_number |-> number.value]
             IN  Parsed(parts, 11, AllInts(parts, {1, 2, 3, 4, 5, 10, 11}) /\ number.ok,
                        session, update("EPISODE", result.eid, result), FALSE)
    ELSE CbNone(session)

\* the handler of updated(): nothing is cached
updated_cb(code, response, session) ==
    IF code = 343 THEN CbResult([message |-> response_message(code)], session)
    ELSE IF code = 243
        THEN LET parts == SplitBar[SecondLine(response)]
                 aid_list == int_list(parts[4])
             IN  IF Len(parts) < 4 THEN CbRaise("IndexError", <<>>, session)
                 ELSE IF ~(AllInts(parts, {1, 2, 3}) /\ aid_list.ok)
                     THEN CbRaise("ValueError", <<>>, session)
                 ELSE CbResult([entity |-> int(parts[1]).value,
                                total_count |-> int(parts[2]).value,
                                last_update_date |-> int(parts[3]).value,
                                aid_list |-> aid_list.value], session)
    ELSE CbNone(session)

\* mappings.group.parse_relations(group_relations)
parse_relations(group_relations) ==
    LET relations == SplitQuote[group_relations]
        parts(i) == SplitComma[relations[i]]
    IN  IF \E i \in DOMAIN relations : Len(parts(i)) < 2 \/ ~AllInts(parts(i), {1, 2})
        THEN [ok |-> FALSE, value |-> <<>>]
        ELSE [ok |-> TRUE,
              value |-> [i \in DOMAIN relations |->
                            <<int(parts(i)[1]).value, int(parts(i)[2]).value>>]]

\* the handler of group(): the document is stored under the gid of the reply
group_cb(code, response, session) ==
    IF code = 350 THEN CbResult([message |-> response_message(code)], session)
    ELSE IF code = 250
        THEN LET parts == SplitBar[SecondLine(response)]
                 grouprelations == parse_relations(parts[17])
                 result ==
                     [gid |-> int(parts[1]).value,
                      rating |-> int(parts[2]).value,
                      votes |-> int(parts[3]).value,
                      acount |-> int(parts[4]).value,
                      fcount |-> int(parts[5]).value,
                      name |-> parts[6],
                      short |-> parts[7],
                      irc_channel |-> parts[8],
                      irc_server |-> parts[9],
                      url |-> parts[10],
                      picname |-> parts[11],
                      foundeddate |-> int(parts[12]).value,
                      disbandeddate |-> int(parts[13]).value,
                      dateflags |-> int(parts[14]).value,
                      lastreleasedate |-> int(parts[15]).value,
                      lastactivitydate |-> int(parts[16]).value,
                      grouprelations |-> grouprelations.value]
             IN  Parsed(parts, 17,
                        AllInts(parts, {1, 2, 3, 4, 5, 12, 13, 14, 15, 16})
                        /\ grouprelations.ok,
                        session, update("GROUP", result.gid, result), TRUE)
    ELSE CbNone(session)

\* the records of groups_data read before the first one with fewer than 7
\* fields, where the loop breaks
RECURSIVE BeforeShort(_)
BeforeShort(groups_data) ==
    IF groups_data = <<>> \/ Len(SplitBar[Head(groups_data)]) < 7 THEN <<>>
    ELSE <<Head(groups_data)>> \o BeforeShort(Tail(groups_data))

\* the loop goes on after a short record instead of breaking
groupstatus_cb_continue(code, response, session) ==
    IF code \in {325, 330} THEN CbResult([message |-> response_message(code)], session)
    ELSE IF code = 225
        THEN LET groups_data == response.body
                 whole == SelectSeq(groups_data, LAMBDA l : Len(SplitBar[l]) >= 7)
             IN  CbResult([status_list |->
                              [i \in DOMAIN whole |->
                                  [group_id |-> int(SplitBar[whole[i]][1]).value,
                                   group_name |-> SplitBar[whole[i]][2],
                                   completion_state |-> int(SplitBar[whole[i]][3]).value,
                                   last_episode_number |-> int(SplitBar[whole[i]][4]).value,
                                   rating |-> int(SplitBar[whole[i]][5]).value,
                                   votes |-> int(SplitBar[whole[i]][6]).value,
                                   episode_range |-> SplitBar[whole[i]][7]]],
                           truncated |-> Len(whole) < Len(groups_data)], session)
    ELSE CbNone(session)

\* the handler of groupstatus(): response.splitlines()[1:] are the records
groupstatus_cb(code, response, session) ==
    IF code \in {325, 330} THEN CbResult([message |-> response_message(code)], session)
    ELSE IF code = 225
        THEN LET groups_data == response.body
                 read == BeforeShort(groups_data)
                 parts(i) == SplitBar[read[i]]
             IN  IF \E i \in DOMAIN read : ~AllInts(parts(i), {1, 3, 4, 5, 6})
                 THEN CbRaise("ValueError", <<>>, session)
                 ELSE CbResult([status_list |->
                                   [i \in DOMAIN read |->
                                       [group_id |-> int(parts(i)[1]).value,
                                        group_name |-> parts(i)[2],
                                        completion_state |-> int(parts(i)[3]).value,
                                        last_episode_number |-> int(parts(i)[4]).value,
                                        rating |-> int(parts(i)[5]).value,
                                        votes |-> int(parts(i)[6]).value,
                                        episode_range |-> parts(i)[7]]],
                                truncated |-> Len(read) < Len(groups_data)], session)
    ELSE CbNone(session)

callback(cb, code, response, session) ==
    CASE cb.name = "auth" -> auth_cb(code, response, session)
      [] cb.name = "logout" -> logout_cb(code, response, session)
      [] cb.name = "ping" -> ping_cb(code, response, session)
      [] cb.name = "calendar" -> calendar_cb(code, response, session)
      [] cb.name = "encrypt" ->
             encrypt_cb(code, response, session, cb.captured.api_key)
      [] cb.name = "encoding" -> encoding_cb(code, response, session)
      [] cb.name = "anime" ->
             anime_cb(code, response, session, cb.captured.amask, cb.captured.aid)
      [] cb.name = "animedesc" -> animedesc_cb(code, response, session, cb.captured.id)
      [] cb.name = "character" ->
             character_cb(code, response, session, cb.captured.charid)
      [] cb.name = "creator" ->
             creator_cb(code, response, session, cb.captured.creatorid)
      [] cb.name = "episode" -> episode_cb(code, response, session)
      [] cb.name = "updated" -> updated_cb(code, response, session)
      [] cb.name = "group" -> group_cb(code, response, session)
      [] cb.name = "groupstatus" -> groupstatus_cb(code, response, session)

(* ------------------------------ frames --------------------------------- *)

\* an activation of send(command, args, callback); pc is "start" before the
\* datagram is sent, "recv" while waiting for the reply, "wait_auth" while the
\* auth() it called runs, "wait_resend" while the send() it called runs
Frame(command, args, cb) ==
    [command |-> command, args |-> args, cb |-> cb, pc |-> "start"]

SetTop(f) == [stack EXCEPT ![Len(stack)] = f]

\* an exception: no frame of api.py catches, so it unwinds every frame
Raise(error, info) ==
    /\ stack' = <<>>
    /\ outcome' = Raised(error, info)

\* A datagram in the transport is known by whether it belongs to the send
\* cycle in progress (cur) or to an earlier one.  What a reply says is chosen
\* when the client reads it.
Older(box) == [i \in 1..Len(box) |-> [cur |-> FALSE]]

\* socket.send(packet): the datagram reaches the server unless the transport
\* is full, in which case it is lost
Transmit(box) ==
    IF Len(pending) + Len(inbox) < MaxInflight
    THEN Append(Older(box), [cur |-> TRUE])
    ELSE Older(box)

\* the frames that are left once every frame that only waits to hand on the
\* result of the send() it called (return send(...)) has returned
RECURSIVE Returning(_)
Returning(stk) ==
    IF stk # <<>> /\ stk[Len(stk)].pc = "wait_resend"
    THEN Returning(SubSeq(stk, 1, Len(stk) - 1))
    ELSE stk

\* return send(command, args, callback): the caller waits for the new
\* activation, which gets the caller's own args dictionary
Resent(stk) ==
    LET f == stk[Len(stk)]
    IN  Append([stk EXCEPT ![Len(stk)] = [f EXCEPT !.pc = "wait_resend", !.args = NoArgs]],
               Frame(f.command, f.args, f.cb))

\* return result, code: the result goes down the stack to the caller of the
\* operation, or to a frame that called auth(), which then re-sends
Deliver(data, code) ==
    LET rest == Returning(SubSeq(stack, 1, Len(stack) - 1))
    IN  IF rest = <<>>
        THEN /\ stack' = <<>>
             /\ outcome' = Returned(data, code)
        ELSE /\ stack' = Resent(rest)
             /\ UNCHANGED outcome

(* ------------------------- operations (callers) ------------------------ *)

\* an operation is entered from the caller: nothing of it has been sent
Entered(c) ==
    /\ stack = <<>>
    /\ call' = c
    /\ sent' = 0
    /\ lastpkt' = NoPacket
    /\ slept' = <<>>
    /\ got' = NothingRead

Begin == Entered(NoCall)

\* auth(username, password, client_name, client_version, encoding=encoding),
\* with nat left at its default: the caller gives all four values or none.
\* "global _enconding" declares another name, so the assignment
\* "_encoding = encoding" binds a local of auth() and api._encoding stays
CallAuthEncoding(explicit, encoding) ==
    /\ Begin
    /\ LET d == IF explicit
                THEN AuthData("user", "pass", "client", "2", encoding)
                ELSE AuthData("", "", "", "", encoding)
       IN  IF d.ok
           THEN /\ stack' = <<Frame("AUTH", d.data, Cb("auth"))>>
                /\ outcome' = NoOutcome
           ELSE Raise("ValueError", d.missing)
    /\ UNCHANGED <<settings, mongo, _db, store, _session, _encryptedsession, _encoding,
                   _conn, aes,                   pending, inbox>>

\* auth(username, password, client_name, client_version), with encoding
\* left at its default too
CallAuth(explicit) == CallAuthEncoding(explicit, "UTF8")

\* logout()
CallLogout ==
    /\ Begin
    /\ stack' = <<Frame("LOGOUT", NoArgs, Cb("logout"))>>
    /\ outcome' = NoOutcome
    /\ UNCHANGED <<settings, mongo, _db, store, _session, _encryptedsession, _encoding,
                   _conn, aes,                   pending, inbox>>

\* ping()
CallPing ==
    /\ Begin
    /\ stack' = <<Frame("PING", NoArgs, Cb("ping"))>>
    /\ outcome' = NoOutcome
    /\ UNCHANGED <<settings, mongo, _db, store, _session, _encryptedsession, _encoding,
                   _conn, aes,                   pending, inbox>>

\* calendar()
CallCalendar ==
    /\ Begin
    /\ stack' = <<Frame("CALENDAR", NoArgs, Cb("calendar"))>>
    /\ outcome' = NoOutcome
    /\ UNCHANGED <<settings, mongo, _db, store, _session, _encryptedsession, _encoding,
                   _conn, aes,                   pending, inbox>>

\* encrypt(username, api_key), with type left at its default 1
CallEncrypt(username, api_key) ==
    /\ Begin
    /\ LET k == value_or_error("ENCRYPT_API_KEY", api_key)
           u == value_or_error("ANIDB_USERNAME", username)
       IN  IF ~k.ok THEN Raise(k.error, k.value)
           ELSE IF ~u.ok THEN Raise(u.error, u.value)
           ELSE /\ stack' = <<Frame("ENCRYPT", [user |-> u.value, type |-> 1],
                                    Closure("encrypt", [api_key |-> k.value]))>>
                /\ outcome' = NoOutcome
    /\ UNCHANGED <<settings, mongo, _db, store, _session, _encryptedsession, _encoding,
                   _conn, aes,                   pending, inbox>>

\* restore_session(session, enc): sets the encoding and the token, then
\* calls encoding(enc)
CallRestoreSession(session, enc) ==
    /\ Begin
    /\ _encoding' = enc
    /\ _session' = session
    /\ stack' = <<Frame("ENCODING", [name |-> enc], Cb("encoding"))>>
    /\ outcome' = NoOutcome
    /\ UNCHANGED <<settings, mongo, _db, store, _encryptedsession, _conn, aes,
                   pending, inbox>>

\* what a caller of the cache module passes
CacheIds == {1, 2}

CacheData ==
    {[year |-> "2000"], [year |-> "2001"], [type |-> "TV"],
     [year |-> "2000", type |-> "TV"]}

\* cache.setup(uri) called by the user
CallSetup(uri) ==
    /\ Entered([op |-> "setup", args |-> [uri |-> uri]])
    /\ LET r == setup(uri)
       IN  IF r.ok
           THEN /\ _db' = r.db
                /\ outcome' = Returned([db |-> r.db], 0)
           ELSE /\ _db' = _db
                /\ outcome' = Raised("ValueError", "MONGODB_URI")
    /\ UNCHANGED <<settings, mongo, store, _session, _encryptedsession, _encoding,
                   _conn, aes, stack, pending, inbox>>

\* masks given to filter_cached: year, type, episodes, and bit 0, which
\* names no field
FilterMasks == SUBSET {53, 52, 39, 0}

\* mappings.anime.filter_cached(input, aid) called on its own
CallFilterCached(input, aid) ==
    /\ Entered([op |-> "filter_cached", args |-> [input |-> input, aid |-> aid]])
    /\ LET r == filter_cached(input, aid)
       IN  /\ _db' = r.db
           /\ outcome' = IF r.ok THEN Returned([mask |-> r.mask], 0)
                         ELSE Raised(r.error, <<>>)
    /\ UNCHANGED <<settings, mongo, store, _session, _encryptedsession, _encoding,
                   _conn, aes, stack, pending, inbox>>

\* bits of the masks given to parse_response: year (str), related_aid_list
\* (str_list), episodes (int), is_18_restricted (to_bool), tag_id_list
\* (int_list), and bit 0, which names no field
ParseBits == {53, 51, 39, 24, 18, 0}

\* the value the server sends for each bit
WireValue ==
    (53 :> "1999") @@ (51 :> "1,2") @@ (39 :> "26") @@ (24 :> "1") @@ (18 :> "2,1")
    @@ (0 :> "x")

\* the values of the bits of a mask in the order of the wire, from the
\* highest bit down
WireLine(bits) ==
    LET up == Ascending(bits)
    IN  [i \in 1..Len(up) |-> WireValue[up[Len(up) + 1 - i]]]

\* The lines parsed against a mask: the values of all of its bits, of its
\* lowest bits only, or of its highest bits only.
Segments(bits) ==
    {part \in SUBSET bits :
        \/ \A b \in part, c \in bits \ part : b < c
        \/ \A b \in part, c \in bits \ part : b > c}

\* "|".join(values).split("|"): a line without a value still splits into
\* one empty part
Rejoined(values) == IF values = <<>> THEN <<"">> ELSE values

\* mappings.anime.parse_response(input, response) called on its own, the
\* response being the "|"-joined values
CallParseResponse(input, values) ==
    /\ Entered([op |-> "parse_response", args |-> [input |-> input, values |-> values]])
    /\ LET r == parse_response(input, Rejoined(values))
       IN  outcome' = IF r.ok THEN Returned(r.result, 0) ELSE Raised(r.error, <<>>)
    /\ UNCHANGED <<settings, mongo, _db, store, _session, _encryptedsession, _encoding,
                   _conn, aes, stack, pending, inbox>>

\* the texts handed to the crypto module: up to MaxLen times a letter, a
\* control character that is also a padding character, or an accented letter
Chars == {65, 16, 233}

Messages == {[i \in 1..n |-> c] : n \in 0..MaxLen, c \in Chars}

\* crypto.pad(s) called on its own
CallPad(s) ==
    /\ Entered([op |-> "pad", args |-> [s |-> s]])
    /\ outcome' = Returned(pad(s), 0)
    /\ UNCHANGED <<settings, mongo, _db, store, _session, _encryptedsession, _encoding,
                   _conn, aes, stack, pending, inbox>>

\* crypto.unpad(s) called on the text pad() just returned
CallUnpad ==
    /\ call.op = "pad"
    /\ Entered([op |-> "unpad", args |-> [s |-> outcome.data]])
    /\ LET r == unpad(outcome.data)
       IN  outcome' = IF r.ok THEN Returned(r.value, 0) ELSE Raised(r.error, <<>>)
    /\ UNCHANGED <<settings, mongo, _db, store, _session, _encryptedsession, _encoding,
                   _conn, aes, stack, pending, inbox>>

\* crypto.setup(key): aes = AES.new(md5(key).digest(), AES.MODE_ECB)
CallCryptoSetup(key) ==
    /\ Entered([op |-> "crypto.setup", args |-> [key |-> key]])
    /\ aes' = key
    /\ outcome' = Returned(<<>>, 0)
    /\ UNCHANGED <<settings, mongo, _db, store, _session, _encryptedsession, _encoding,
                   _conn, stack, pending, inbox>>

\* crypto.encrypt(message, encoding) called on its own
CallCryptoEncrypt(message, encoding) ==
    /\ Entered([op |-> "encrypt", args |-> [message |-> message, encoding |-> encoding]])
    /\ LET r == encrypt(message, encoding, aes)
       IN  outcome' = IF r.ok THEN Returned(r.value, 0) ELSE Raised(r.error, <<>>)
    /\ UNCHANGED <<settings, mongo, _db, store, _session, _encryptedsession, _encoding,
                   _conn, aes, stack, pending, inbox>>

\* crypto.decrypt(message, encoding) called on the bytes encrypt() just
\* returned
CallCryptoDecrypt(encoding) ==
    /\ call.op = "encrypt"
    /\ outcome.kind = "return"
    /\ Entered([op |-> "decrypt", args |-> [message |-> outcome.data, encoding |-> encoding]])
    /\ LET r == decrypt(outcome.data, encoding, aes)
       IN  outcome' = IF r.ok THEN Returned(r.value, 0) ELSE Raised(r.error, <<>>)
    /\ UNCHANGED <<settings, mongo, _db, store, _session, _encryptedsession, _encoding,
                   _conn, aes, stack, pending, inbox>>

\* cache.restore(collection, id) called by the user
CallRestore(collection, id) ==
    /\ Entered([op |-> "restore", args |-> [collection |-> collection, id |-> id]])
    /\ LET r == restore(collection, ById(id))
       IN  /\ _db' = r.db
           /\ outcome' = IF ~r.ok THEN Raised("ValueError", "MONGODB_URI")
                         ELSE IF r.found THEN Returned(r.doc, 0)
                         ELSE Returned(<<>>, 0)
    /\ UNCHANGED <<settings, mongo, store, _session, _encryptedsession, _encoding,
                   _conn, aes, stack, pending, inbox>>

\* cache.update(collection, id, data) called by the user
CallUpdate(collection, id, data) ==
    /\ Entered([op |-> "update",
                args |-> [collection |-> collection, id |-> id, data |-> data]])
    /\ LET r == update(collection, id, data)
       IN  /\ _db' = r.db
           /\ store' = r.store
           /\ outcome' = IF r.ok THEN Returned(r.doc, 0)
                         ELSE Raised("ValueError", "MONGODB_URI")
    /\ UNCHANGED <<settings, mongo, _session, _encryptedsession, _encoding, _conn,
                   aes, stack, pending, inbox>>

\* anime(amask, aid, aname, use_cache); aid = 0 and aname = "" stand for
\* arguments not given.  The cache is read when use_cache asks for the mask
\* to be filtered and when the mask asks for nothing more.
CallAnime(amask, aid, aname, use_cache) ==
    /\ Entered([op |-> "anime",
                args |-> [amask |-> amask, aid |-> aid, aname |-> aname,
                          use_cache |-> use_cache]])
    /\ LET f == IF use_cache THEN filter_cached(amask, aid)
                ELSE [ok |-> TRUE, error |-> "", db |-> _db, mask |-> amask]
           restored == restore("ANIME", ById(aid))
           data == [amask |-> f.mask]
           callback_ == Closure("anime", [amask |-> amask, aid |-> aid])
       IN  IF ~f.ok
           THEN /\ Raise(f.error, <<>>)
                /\ _db' = f.db
           ELSE IF aid # 0
           THEN IF f.mask = {}
                THEN IF ~restored.ok
                     THEN /\ Raise("ValueError", "MONGODB_URI")
                          /\ _db' = restored.db
                     ELSE IF restored.found
                     THEN /\ stack' = <<>>
                          /\ outcome' = Returned(restored.doc, 230)
                          /\ _db' = restored.db
                     ELSE /\ stack' = <<Frame("ANIME", data @@ [aid |-> aid], callback_)>>
                          /\ outcome' = NoOutcome
                          /\ _db' = restored.db
                ELSE /\ stack' = <<Frame("ANIME", data @@ [aid |-> aid], callback_)>>
                     /\ outcome' = NoOutcome
                     /\ _db' = f.db
           ELSE IF aname # ""
           THEN /\ stack' = <<Frame("ANIME", data @@ [aname |-> aname], callback_)>>
                /\ outcome' = NoOutcome
                /\ _db' = f.db
           ELSE /\ Raise("ValueError", "Either aid or aname must be provided")
                /\ _db' = f.db
    /\ UNCHANGED <<settings, mongo, store, _session, _encryptedsession, _encoding,
                   _conn, aes, pending, inbox>>

\* the command sent whether or not the cache holds an entry
RestoreOrSend_send(command, filter, use_cache, data, cb, code) ==
    LET entry == restore(command, filter)
    IN  /\ _db' = entry.db
        /\ stack' = <<Frame(command, data, cb)>>
        /\ outcome' = NoOutcome

\* the cached operations checking the session before the cache
RestoreOrSend_authfirst(command, filter, use_cache, data, cb, code) ==
    LET entry == restore(command, filter)
    IN  /\ _db' = entry.db
        /\ IF _session = "" THEN Raise("ValueError", "auth first")
           ELSE IF ~entry.ok THEN Raise("ValueError", "MONGODB_URI")
           ELSE IF ~use_cache \/ ~entry.found
           THEN /\ stack' = <<Frame(command, data, cb)>>
                /\ outcome' = NoOutcome
           ELSE /\ stack' = <<>>
                /\ outcome' = Returned(entry.doc, code)

\* The end of the cached operations: entry = cache.restore(command, filter);
\* without use_cache or without an entry the command is sent, else the entry
\* is returned with the code given.
RestoreOrSend(command, filter, use_cache, data, cb, code) ==
    LET entry == restore(command, filter)
    IN  /\ _db' = entry.db
        /\ IF ~entry.ok THEN Raise("ValueError", "MONGODB_URI")
           ELSE IF ~use_cache \/ ~entry.found
           THEN /\ stack' = <<Frame(command, data, cb)>>
                /\ outcome' = NoOutcome
           ELSE /\ stack' = <<>>
                /\ outcome' = Returned(entry.doc, code)

\* f"{aid}|{part}"
DescId(aid, part) ==
    CASE aid = 1 /\ part = 1 -> "1|1"
      [] aid = 1 /\ part = 2 -> "1|2"

\* animedesc(aid, part, use_cache)
CallAnimedesc(aid, part, use_cache) ==
    /\ Entered([op |-> "animedesc",
                args |-> [aid |-> aid, part |-> part, use_cache |-> use_cache]])
    /\ RestoreOrSend("ANIMEDESC", ById(DescId(aid, part)), use_cache,
                     [aid |-> aid, part |-> part],
                     Closure("animedesc", [id |-> DescId(aid, part)]), 233)
    /\ UNCHANGED <<settings, mongo, store, _session, _encryptedsession, _encoding,
                   _conn, aes, pending, inbox>>

\* character(charid, use_cache)
CallCharacter(charid, use_cache) ==
    /\ Entered([op |-> "character",
                args |-> [charid |-> charid, use_cache |-> use_cache]])
    /\ RestoreOrSend("CHARACTER", ById(charid), use_cache, [charid |-> charid],
                     Closure("character", [charid |-> charid]), 235)
    /\ UNCHANGED <<settings, mongo, store, _session, _encryptedsession, _encoding,
                   _conn, aes, pending, inbox>>

\* creator(creatorid, use_cache)
CallCreator(creatorid, use_cache) ==
    /\ Entered([op |-> "creator",
                args |-> [creatorid |-> creatorid, use_cache |-> use_cache]])
    /\ RestoreOrSend("CREATOR", ById(creatorid), use_cache, [creatorid |-> creatorid],
                     Closure("creator", [creatorid |-> creatorid]), 233)
    /\ UNCHANGED <<settings, mongo, store, _session, _encryptedsession, _encoding,
                   _conn, aes, pending, inbox>>

\* episode(eid, aid, aname, epno, use_cache); 0 and "" stand for arguments
\* not given
CallEpisode(eid, aid, aname, epno, use_cache) ==
    /\ Entered([op |-> "episode",
                args |-> [eid |-> eid, aid |-> aid, aname |-> aname, epno |-> epno,
                          use_cache |-> use_cache]])
    /\ IF eid # 0
       THEN RestoreOrSend("EPISODE", [eid |-> eid], use_cache, [eid |-> eid],
                          Cb("episode"), 233)
       ELSE IF aid # 0 /\ epno # ""
       THEN RestoreOrSend("EPISODE", [aid |-> aid, epno |-> epno], use_cache,
                          [aid |-> aid, epno |-> epno], Cb("episode"), 233)
       ELSE IF aname # "" /\ epno # ""
       THEN RestoreOrSend("EPISODE", [aname |-> aname, epno |-> epno], use_cache,
                          [aname |-> aname, epno |-> epno], Cb("episode"), 233)
       ELSE /\ Raise("ValueError",
                     "At least one must be set: eid|aid and epno|aname and epno")
            /\ _db' = _db
    /\ UNCHANGED <<settings, mongo, store, _session, _encryptedsession, _encoding,
                   _conn, aes, pending, inbox>>

\* age and time not checked: age wins when it is given
CallUpdated_unchecked(age, time) ==
    /\ Entered([op |-> "updated", args |-> [age |-> age, time |-> time]])
    /\ stack' = <<Frame("UPDATED",
                        IF age # 0 THEN [entity |-> 1, age |-> age]
                        ELSE [entity |-> 1, time |-> time],
                        Cb("updated"))>>
    /\ outcome' = NoOutcome
    /\ UNCHANGED <<settings, mongo, _db, store, _session, _encryptedsession, _encoding,
                   _conn, aes, pending, inbox>>

\* updated(age, time), with entity left at its default 1
CallUpdated(age, time) ==
    /\ Entered([op |-> "updated", args |-> [age |-> age, time |-> time]])
    /\ IF (age # 0 /\ time # 0) \/ ~(age # 0 \/ time # 0)
       THEN Raise("ValueError", "Exactly one of age or time must be provided.")
       ELSE /\ stack' = <<Frame("UPDATED",
                                IF age # 0 THEN [entity |-> 1, age |-> age]
                                ELSE [entity |-> 1, time |-> time],
                                Cb("updated"))>>
            /\ outcome' = NoOutcome
    /\ UNCHANGED <<settings, mongo, _db, store, _session, _encryptedsession, _encoding,
                   _conn, aes, pending, inbox>>

\* groupstatus(aid, state): state is sent only when it is not 0
CallGroupstatus(aid, state) ==
    /\ Entered([op |-> "groupstatus", args |-> [aid |-> aid, state |-> state]])
    /\ stack' = <<Frame("GROUPSTATUS",
                        IF state # 0 THEN [aid |-> aid, state |-> state]
                        ELSE [aid |-> aid],
                        Cb("groupstatus"))>>
    /\ outcome' = NoOutcome
    /\ UNCHANGED <<settings, mongo, _db, store, _session, _encryptedsession, _encoding,
                   _conn, aes, pending, inbox>>

\* group(gid, gname, use_cache)
CallGroup(gid, gname, use_cache) ==
    /\ Entered([op |-> "group",
                args |-> [gid |-> gid, gname |-> gname, use_cache |-> use_cache]])
    /\ IF gid # 0
       THEN RestoreOrSend("GROUP", [gid |-> gid], use_cache, [gid |-> gid],
                          Cb("group"), 233)
       ELSE IF gname # ""
       THEN RestoreOrSend("GROUP", [gname |-> gname], use_cache, [gname |-> gname],
                          Cb("group"), 233)
       ELSE /\ Raise("ValueError", "Either gid or gname must be provided")
            /\ _db' = _db
    /\ UNCHANGED <<settings, mongo, store, _session, _encryptedsession, _encoding,
                   _conn, aes, pending, inbox>>

(* ------------------------------- send() -------------------------------- *)

\* the session check left out
NeedsSession_nocheck(command) == FALSE

\* ANIME taken for a public command
NeedsSession_anime(command) == command \notin PUBLIC_COMMANDS \cup {"ANIME"}

\* command not in PUBLIC_COMMANDS
NeedsSession(command) == command \notin PUBLIC_COMMANDS

\* the token is put into the parameters only when they hold none yet
SendStart_keeps ==
    /\ stack # <<>>
    /\ Top.pc = "start"
    /\ IF NeedsSession(Top.command) /\ _session = ""
       THEN /\ Raise("ValueError", "auth first")
            /\ UNCHANGED <<_conn, sent, lastpkt, pending, inbox>>
       ELSE LET args == IF NeedsSession(Top.command) /\ "s" \notin DOMAIN Top.args
                        THEN [k \in DOMAIN Top.args \cup {"s"} |->
                                 IF k = "s" THEN _session ELSE Top.args[k]]
                        ELSE Top.args
                packet == [command |-> Top.command, args |-> args,
                           cipher |-> Encoded(_encryptedsession, aes),
                           encoding |-> _encoding]
                server == value_or_error("ANIDB_SERVER", "")
            IN  IF ~_conn /\ ~server.ok
                THEN /\ Raise("ValueError", server.value)
                     /\ UNCHANGED <<_conn, sent, lastpkt, pending, inbox>>
                ELSE /\ sent < MaxSends
                     /\ _conn' = TRUE
                     /\ sent' = sent + 1
                     /\ lastpkt' = packet
                     /\ pending' = Transmit(pending)
                     /\ inbox' = Older(inbox)
                     /\ stack' = SetTop([Top EXCEPT !.args = args, !.pc = "recv"])
                     /\ UNCHANGED outcome
    /\ got' = NothingRead
    /\ UNCHANGED <<settings, mongo, _db, store, call, _session, _encryptedsession,
                   _encoding, aes, slept>>

\* send(), from the session check to socket.send(packet)
SendStart ==
    /\ stack # <<>>
    /\ Top.pc = "start"
    /\ IF NeedsSession(Top.command) /\ _session = ""
       THEN /\ Raise("ValueError", "auth first")
            /\ UNCHANGED <<_conn, sent, lastpkt, pending, inbox>>
       ELSE LET args == IF NeedsSession(Top.command)
                        THEN [k \in DOMAIN Top.args \cup {"s"} |->
                                 IF k = "s" THEN _session ELSE Top.args[k]]
                        ELSE Top.args
                packet == [command |-> Top.command, args |-> args,
                           cipher |-> Encoded(_encryptedsession, aes),
                           encoding |-> _encoding]
                server == value_or_error("ANIDB_SERVER", "")
            IN  IF ~_conn /\ ~server.ok
                THEN /\ Raise("ValueError", server.value)
                     /\ UNCHANGED <<_conn, sent, lastpkt, pending, inbox>>
                ELSE /\ sent < MaxSends
                     /\ _conn' = TRUE
                     /\ sent' = sent + 1
                     /\ lastpkt' = packet
                     /\ pending' = Transmit(pending)
                     /\ inbox' = Older(inbox)
                     /\ stack' = SetTop([Top EXCEPT !.args = args, !.pc = "recv"])
                     /\ UNCHANGED outcome
    /\ got' = NothingRead
    /\ UNCHANGED <<settings, mongo, _db, store, call, _session, _encryptedsession,
                   _encoding, aes, slept>>

\* send(), after the handler returned None: raise, or log in again and
\* re-send, or sleep and re-send
Unhandled(raw) ==
    LET c == Classify(raw.code, raw, Top.args)
        d == AuthData("", "", "", "", "UTF8")
    IN  CASE c.act = "raise" ->
                 /\ Raise(c.error, c.info)
                 /\ UNCHANGED slept
          [] c.act = "auth" ->
                 IF d.ok
                 THEN /\ stack' = Append(SetTop([Top EXCEPT !.pc = "wait_auth"]),
                                         Frame("AUTH", d.data, Cb("auth")))
                      /\ UNCHANGED <<outcome, slept>>
                 ELSE /\ Raise("ValueError", d.missing)
                      /\ UNCHANGED slept
          [] c.act = "sleep" ->
                 /\ slept' = Append(slept, c.secs)
                 /\ stack' = Resent(stack)
                 /\ UNCHANGED outcome

\* send(), from recv to its end: read the reply or time out, run the
\* handler, return its result or classify the status code
Recv ==
    /\ stack # <<>>
    /\ Top.pc = "recv"
    /\ \/ /\ _listen_incoming_packets(inbox) = "data"
          /\ inbox' = Tail(inbox)
          /\ \E raw \in RepliesTo(Top.command), cipher \in Ciphers :
                IF Decodes(cipher, _encryptedsession, aes)
                THEN LET h == callback(Top.cb, raw.code, raw, _session)
                     IN  /\ got' = [raw |-> raw, cur |-> Head(inbox).cur,
                                     cipher |-> cipher]
                         /\ _session' = h.session
                         /\ _encryptedsession' = (_encryptedsession \/ "aes" \in DOMAIN h)
                         /\ aes' = IF "aes" \in DOMAIN h THEN h.aes ELSE aes
                         /\ _db' = IF "db" \in DOMAIN h THEN h.db ELSE _db
                         /\ store' = IF "db" \in DOMAIN h THEN h.store ELSE store
                         /\ CASE h.kind = "result" ->
                                    /\ Deliver(h.data, raw.code)
                                    /\ UNCHANGED slept
                              [] h.kind = "raise" ->
                                    /\ Raise(h.error, h.info)
                                    /\ UNCHANGED slept
                              [] h.kind = "none" -> Unhandled(raw)
                ELSE /\ got' = [raw |-> NoReply, cur |-> Head(inbox).cur,
                                 cipher |-> cipher]
                     /\ Raise("ValueError", "undecodable reply")
                     /\ UNCHANGED <<_session, _encryptedsession, aes, _db, store,
                                    slept>>
       \/ /\ _listen_incoming_packets(inbox) = "timeout"
          /\ Raise("socket.timeout", RECV_TIMEOUT)
          /\ UNCHANGED <<_session, _encryptedsession, aes, _db, store, slept, got,
                         inbox>>
    /\ UNCHANGED <<settings, mongo, call, _encoding, _conn, sent, lastpkt, pending>>

(* --------------------------- server, transport ------------------------- *)

\* the server answers the oldest datagram it holds
ServerReply ==
    /\ pending # <<>>
    /\ inbox' = Append(inbox, Head(pending))
    /\ pending' = Tail(pending)
    /\ UNCHANGED <<settings, mongo, _db, store, _session, _encryptedsession, _encoding,
                   _conn, aes,                   call, stack, outcome, sent, lastpkt, slept, got>>

\* the server never answers the oldest datagram it holds
ServerDrop ==
    /\ pending # <<>>
    /\ pending' = Tail(pending)
    /\ UNCHANGED <<settings, mongo, _db, store, _session, _encryptedsession, _encoding,
                   _conn, aes,                   call, stack, outcome, sent, lastpkt, slept, got, inbox>>

(* ---------------------------- specification ---------------------------- *)

Client == SendStart \/ Recv

Next ==
    \/ \E explicit \in BOOLEAN : CallAuth(explicit)
    \/ CallLogout
    \/ CallPing
    \/ CallCalendar
    \/ SendStart
    \/ Recv
    \/ ServerReply
    \/ ServerDrop

Spec == Init /\ [][Next]_vars

\* the interpreter keeps running the one thread: a send() that can take its
\* next step takes it
FairSpec == Spec /\ WF_vars(Client)

\* The client of a caller who also encrypts the session and restores a
\* session of an earlier run, and who passes the credentials to auth().
SessionInit == Init /\ settings = EnvServerOnly

SessionNext ==
    \/ CallAuth(TRUE)
    \/ CallLogout
    \/ CallCalendar
    \/ \E username \in {"", "user"}, api_key \in ApiKeys \cup {""} :
          CallEncrypt(username, api_key)
    \/ \E session \in Tokens, enc \in Encodings : CallRestoreSession(session, enc)
    \/ SendStart
    \/ Recv
    \/ ServerReply
    \/ ServerDrop

SessionSpec == SessionInit /\ [][SessionNext]_vars

\* encrypt() called with or without its arguments, in a process whose
\* environment configures every setting or only the server address.
EncryptInit == Init /\ settings \in {EnvConfigured, EnvServerOnly}

EncryptNext ==
    \/ \E username \in {"", "user"}, api_key \in ApiKeys \cup {""} :
          CallEncrypt(username, api_key)
    \/ CallCalendar
    \/ SendStart
    \/ Recv
    \/ ServerReply
    \/ ServerDrop

EncryptSpec == EncryptInit /\ [][EncryptNext]_vars

\* The client of a caller who chooses the encoding of the session, at auth()
\* or at restore_session().
EncodingInit == Init /\ settings = EnvConfigured

EncodingNext ==
    \/ \E explicit \in BOOLEAN, encoding \in Encodings :
          CallAuthEncoding(explicit, encoding)
    \/ \E session \in Tokens, enc \in Encodings : CallRestoreSession(session, enc)
    \/ CallLogout
    \/ CallCalendar
    \/ SendStart
    \/ Recv
    \/ ServerReply
    \/ ServerDrop

EncodingSpec == EncodingInit /\ [][EncodingNext]_vars

\* The cache module called on its own, with the database up, down, or
\* without its driver.
CacheInit ==
    /\ settings = EnvConfigured
    /\ mongo \in {"up", "down", "nodriver"}
    /\ ModuleState

CacheNext ==
    \/ \E uri \in {"", "mongodb://cache:27017"} : CallSetup(uri)
    \/ \E id \in CacheIds : CallRestore("ANIME", id)
    \/ \E id \in CacheIds, data \in CacheData : CallUpdate("ANIME", id, data)
    \/ \E input \in FilterMasks, aid \in {0} \cup CacheIds :
          CallFilterCached(input, aid)

CacheSpec == CacheInit /\ [][CacheNext]_vars

\* The functions of mappings and crypto called on their own.
PureInit ==
    /\ settings = EnvConfigured
    /\ mongo = "up"
    /\ ModuleState

PureNext ==
    \/ \E input \in SUBSET ParseBits :
          \E line \in Segments(input) : CallParseResponse(input, WireLine(line))

PureSpec == PureInit /\ [][PureNext]_vars

\* The client of a caller who logs in and asks for anime data, with the
\* database up, down, or without its driver.
AnimeInit ==
    /\ settings = EnvServerOnly
    /\ mongo \in {"up", "down"}
    /\ ModuleState

\* (aid, aname) of a call of anime(): by id, by name, or neither
AnimeKeys == {<<1, "">>, <<0, "name">>, <<0, "">>}

AnimeNext ==
    \/ CallAuth(TRUE)
    \/ \E amask \in AnimeMasks, key \in AnimeKeys, use_cache \in BOOLEAN :
          CallAnime(amask, key[1], key[2], use_cache)
    \/ SendStart
    \/ Recv
    \/ ServerReply
    \/ ServerDrop

AnimeSpec == AnimeInit /\ [][AnimeNext]_vars

\* (eid, aid, aname, epno) of a call of episode()
EpisodeKeys ==
    {<<1, 0, "", "">>, <<0, 1, "", "S1">>, <<0, 0, "name", "S1">>, <<0, 1, "name", "">>}

\* (gid, gname) of a call of group()
GroupKeys == {<<1, "">>, <<0, "name">>, <<0, "">>}

\* The client of a caller who logs in and asks for data by id, through the
\* operations that answer from the cache; of the anime fields the caller asks
\* for the year.
DataNext ==
    \/ CallAuth(TRUE)
    \/ \E use_cache \in BOOLEAN : CallAnime({53}, 1, "", use_cache)
    \/ \E use_cache \in BOOLEAN : CallAnimedesc(1, 1, use_cache)
    \/ \E use_cache \in BOOLEAN : CallCharacter(1, use_cache)
    \/ \E use_cache \in BOOLEAN : CallCreator(1, use_cache)
    \/ \E use_cache \in BOOLEAN : CallEpisode(1, 0, "", "", use_cache)
    \/ SendStart
    \/ Recv
    \/ ServerReply
    \/ ServerDrop

DataSpec == AnimeInit /\ [][DataNext]_vars

\* The client of a caller who logs in and uses the operations that check
\* their arguments.
EntityNext ==
    \/ CallAuth(TRUE)
    \/ \E key \in AnimeKeys, use_cache \in BOOLEAN :
          CallAnime({53}, key[1], key[2], use_cache)
    \/ \E key \in EpisodeKeys, use_cache \in BOOLEAN :
          CallEpisode(key[1], key[2], key[3], key[4], use_cache)
    \/ \E age \in {0, 1}, time \in {0, 1} : CallUpdated(age, time)
    \/ \E key \in GroupKeys, use_cache \in BOOLEAN :
          CallGroup(key[1], key[2], use_cache)
    \/ SendStart
    \/ Recv
    \/ ServerReply
    \/ ServerDrop

EntitySpec == AnimeInit /\ [][EntityNext]_vars

\* The client of a caller who logs in and asks for the release status of the
\* groups of an anime.
StatusNext ==
    \/ CallAuth(TRUE)
    \/ \E state \in {0, 1} : CallGroupstatus(1, state)
    \/ SendStart
    \/ Recv
    \/ ServerReply
    \/ ServerDrop

StatusSpec == AnimeInit /\ [][StatusNext]_vars

\* The crypto module called on its own: the cipher is set up from a key, and
\* texts are padded, unpadded, encrypted and decrypted.
CryptoNext ==
    \/ \E s \in Messages : CallPad(s)
    \/ CallUnpad
    \/ CallCryptoSetup(<<"key", "saltA">>)
    \/ \E message \in Messages, encoding \in Encodings :
          CallCryptoEncrypt(message, encoding)
    \/ \E encoding \in Encodings : CallCryptoDecrypt(encoding)

CryptoSpec == PureInit /\ [][CryptoNext]_vars

\* The six operations keyed by an identifier, each called with one id by a
\* caller who leaves use_cache at its default (True), against a live
\* database: a cached entry short-circuits, a miss goes to the network.
KeyedInit == /\ settings = EnvServerOnly /\ mongo = "up" /\ ModuleState

KeyedCalls(use_cache) ==
    \/ CallAnime({53}, 1, "", use_cache)
    \/ CallAnimedesc(1, 1, use_cache)
    \/ CallCharacter(1, use_cache)
    \/ CallCreator(1, use_cache)
    \/ CallEpisode(1, 0, "", "", use_cache)
    \/ CallGroup(1, "", use_cache)

KeyedNext ==
    \/ CallAuth(TRUE)
    \/ KeyedCalls(TRUE)
    \/ SendStart \/ Recv \/ ServerReply \/ ServerDrop

KeyedSpec == KeyedInit /\ [][KeyedNext]_vars

\* A caller who never logs in: the documents are put into the cache with
\* cache.update, and the six operations are called by identifier.
OfflineKeys ==
    [ANIME |-> 1, ANIMEDESC |-> DescId(1, 1), CHARACTER |-> 1, CREATOR |-> 1,
     EPISODE |-> 1, GROUP |-> 1]

OfflineDocs ==
    [ANIME |-> [year |-> "2000"], ANIMEDESC |-> [description |-> "text"],
     CHARACTER |-> [charid |-> 1], CREATOR |-> [creatorid |-> 1],
     EPISODE |-> [eid |-> 1], GROUP |-> [gid |-> 1]]

OfflineNext ==
    \/ \E c \in Collections : CallUpdate(c, OfflineKeys[c], OfflineDocs[c])
    \/ \E use_cache \in BOOLEAN : KeyedCalls(use_cache)
    \/ SendStart

OfflineSpec == KeyedInit /\ [][OfflineNext]_vars

\* The client and the cache module with the database down or without its
\* driver.
OutageInit ==
    /\ settings = EnvServerOnly
    /\ mongo \in {"down", "nodriver"}
    /\ ModuleState

OutageNext ==
    \/ CallAuth(TRUE)
    \/ \E uri \in {"", "mongodb://cache:27017"} : CallSetup(uri)
    \/ \E id \in CacheIds : CallRestore("ANIME", id)
    \/ \E id \in CacheIds, data \in CacheData : CallUpdate("ANIME", id, data)
    \/ \E use_cache \in BOOLEAN : CallAnime({53}, 1, "", use_cache)
    \/ \E use_cache \in BOOLEAN : CallAnimedesc(1, 1, use_cache)
    \/ \E use_cache \in BOOLEAN : CallCharacter(1, use_cache)
    \/ \E use_cache \in BOOLEAN : CallCreator(1, use_cache)
    \/ \E use_cache \in BOOLEAN : CallEpisode(1, 0, "", "", use_cache)
    \/ \E use_cache \in BOOLEAN : CallGroup(1, "", use_cache)
    \/ SendStart
    \/ Recv
    \/ ServerReply
    \/ ServerDrop

OutageSpec == OutageInit /\ [][OutageNext]_vars

TypeOK ==
    /\ _session \in Tokens \cup {""}
    /\ _conn \in BOOLEAN
    /\ sent \in 0..MaxSends
    /\ Len(pending) + Len(inbox) <= MaxInflight

(* ------------------------------- claims -------------------------------- *)

\* the active frame of send() takes a step
Stepped == stack # <<>> /\ stack' # stack

\* the active frame reads a reply whose status code is one of codes
Reads(codes) ==
    /\ Stepped
    /\ Top.pc = "recv"
    /\ inbox # <<>>
    /\ got'.raw.code \in codes

\* the status codes for which a handler returns a result or raises
HandledCodes(cb) ==
    CASE cb.name = "auth" -> {200, 201, 503, 504}
      [] cb.name = "logout" -> {203, 403}
      [] cb.name = "ping" -> {300}
      [] cb.name = "calendar" -> {297, 397}
      [] cb.name = "encrypt" -> {209, 309, 509, 394}
      [] cb.name = "encoding" -> {219, 519}

\* the handler of the active frame returns None for the reply read
NotHandled == got'.raw.code \notin HandledCodes(Top.cb)

\* the step ends the operation call by raising error(info), sending nothing
RaisesNow(error, info) ==
    /\ stack' = <<>>
    /\ outcome' = Raised(error, info)
    /\ sent' = sent
    /\ pending' = pending

\* every frame from position k + 1 up to the one below the active frame only
\* waits to return what the send() it called returns
OnlyResendsAbove(k) ==
    \A j \in (k + 1)..(Len(stack) - 1) : stack[j].pc = "wait_resend"

\* C1: a command outside PING, ENCRYPT, ENCODING, AUTH, VERSION that reaches
\* send with an empty session token fails at once with ValueError and sends
\* no datagram; with a non-empty token the token is attached as s, and the
\* datagram that goes out carries it.
C1_SessionRequired ==
    [][(/\ Stepped
        /\ Top.pc = "start"
        /\ Top.command \notin {"PING", "ENCRYPT", "ENCODING", "AUTH", "VERSION"})
       => IF _session = ""
          THEN RaisesNow("ValueError", "auth first")
          ELSE (_conn \/ settings.ANIDB_SERVER # "")
               => /\ "s" \in DOMAIN Top'.args
                  /\ Top'.args["s"] = _session
                  /\ sent' = sent + 1
                  /\ lastpkt'.command = Top.command
                  /\ lastpkt'.args = Top'.args]_vars

C1_Witness ==
    /\ outcome = Raised("ValueError", "auth first")
    /\ sent = 0
    /\ stack = <<>>

\* the parameters auth() sends when it is called with no arguments
NoArgAuthData ==
    [user |-> settings.ANIDB_USERNAME, pass |-> settings.ANIDB_PASSWORD,
     client |-> settings.ZENCHI_CLIENTNAME,
     clientver |-> settings.ZENCHI_CLIENTVERSION, protover |-> 3, enc |-> "UTF8"]

\* C2: an unhandled 501, or an unhandled 506 on a request that carried s,
\* makes send call auth() with no arguments; when that auth() returns, send
\* calls itself with the same command, params and handler, and the caller of
\* the operation receives what this second activation returns.  At the
\* classification an error reaches the caller only when auth() raises (a
\* setting it needs is missing), and then nothing is re-sent.
C2_ReauthAndResend ==
    [][/\ (/\ Reads({501, 506})
           /\ NotHandled
           /\ got'.raw.code = 506 => "s" \in DOMAIN Top.args)
          => IF settings.ANIDB_USERNAME # ""
             THEN /\ stack' = Append(SetTop([Top EXCEPT !.pc = "wait_auth"]),
                                     Frame("AUTH", NoArgAuthData, Cb("auth")))
                  /\ outcome' = outcome
                  /\ sent' = sent
                  /\ slept' = slept
             ELSE RaisesNow("ValueError", "ANIDB_USERNAME")
       /\ \A k \in 1..(Len(stack) - 1) :
             (/\ Reads({200, 201})
              /\ Top.cb.name = "auth"
              /\ stack[k].pc = "wait_auth"
              /\ OnlyResendsAbove(k))
             => /\ Len(stack') = k + 1
                /\ SubSeq(stack', 1, k - 1) = SubSeq(stack, 1, k - 1)
                /\ stack'[k].pc = "wait_resend"
                /\ stack'[k + 1] = Frame(stack[k].command, stack[k].args, stack[k].cb)
                /\ outcome' = outcome
       /\ (/\ Reads({297, 397})
           /\ Top.cb.name = "calendar"
           /\ slept = <<>>
           /\ OnlyResendsAbove(0))
          => /\ stack' = <<>>
             /\ outcome'.kind = "return"
             /\ outcome'.code = got'.raw.code]_vars

\* CALENDAR was answered 501 or 506, auth() got a session, and the caller
\* has the result of the CALENDAR sent again with that session
C2_Witness ==
    /\ stack = <<>>
    /\ outcome.kind = "return"
    /\ outcome.code = 297
    /\ slept = <<>>
    /\ sent = 3
    /\ lastpkt.command = "CALENDAR"
    /\ lastpkt.args["s"] = _session

\* C3: an unhandled 600, 601 or 602 makes send wait 30 seconds and call
\* itself again with the same command and params; no error reaches the caller.
C3_BusyRetried ==
    [][(Reads({600, 601, 602}) /\ NotHandled)
       => /\ slept' = Append(slept, 30)
          /\ stack' # <<>>
          /\ Top' = Frame(Top.command, Top.args, Top.cb)
          /\ outcome'.kind # "raise"]_vars

\* C4: an unhandled 604 makes send sleep 5 seconds and call itself with the
\* identical command, params and handler; the caller gets what that
\* activation returns.
C4_TimeoutRetried ==
    [][/\ (Reads({604}) /\ NotHandled)
          => /\ slept' = Append(slept, 5)
             /\ Len(stack') = Len(stack) + 1
             /\ Top' = Frame(Top.command, Top.args, Top.cb)
             /\ stack'[Len(stack)].pc = "wait_resend"
             /\ SubSeq(stack', 1, Len(stack) - 1) = SubSeq(stack, 1, Len(stack) - 1)
             /\ outcome' = outcome
             /\ sent' = sent
             /\ _session' = _session
       /\ (/\ Reads({300})
           /\ Top.cb.name = "ping"
           /\ slept # <<>>
           /\ OnlyResendsAbove(0))
          => /\ stack' = <<>>
             /\ outcome' = Returned(<<>>, 300)]_vars

\* PING was answered 604 once, send slept 5 seconds, and the caller has the
\* result of the PING sent again
C4_Witness ==
    /\ stack = <<>>
    /\ outcome = Returned(<<>>, 300)
    /\ slept = <<5>>
    /\ sent = 2
    /\ lastpkt.command = "PING"

\* C5: the busy/timeout retry is bounded: when every attempt of a call is
\* answered 600/601/602/604, send makes at most 5 attempts, so a call whose
\* every reply so far made it sleep and retry never sends a sixth datagram.
C5_RetryBounded ==
    (sent >= 1 /\ Len(slept) = sent - 1) => sent <= 5

C7_ProtocolErrorsRaised ==
    [][(Reads({505, 598, 555, 502}) /\ NotHandled)
       => /\ got'.raw.code = 505 => RaisesNow("IllegalParameterError", <<>>)
          /\ got'.raw.code = 598 => RaisesNow("IllegalCommandError", <<>>)
          /\ got'.raw.code = 555 => RaisesNow("BannedError", got'.raw.body[1])
          /\ got'.raw.code = 502 => RaisesNow("InvalidCredentialsError", <<>>)
          /\ _session' = _session
          /\ slept' = slept]_vars

C7_Witness ==
    /\ outcome = Raised("BannedError", "leech")
    /\ got.raw.code = 555
    /\ stack = <<>>
    /\ sent = 1

\* C8: an unhandled 506 on a request that carried no s makes send raise
\* InvalidSessionError, without calling auth() and without re-sending.
C8_InvalidSessionRaised ==
    [][(Reads({506}) /\ NotHandled /\ "s" \notin DOMAIN Top.args)
       => /\ RaisesNow("InvalidSessionError", <<>>)
          /\ _session' = _session
          /\ slept' = slept]_vars

C8_Witness ==
    /\ outcome = Raised("InvalidSessionError", <<>>)
    /\ got.raw.code = 506
    /\ stack = <<>>
    /\ lastpkt.command = "PING"
    /\ sent = 1

\* C9: a reply that the handler does not handle and whose code is none of
\* 505, 598, 555, 502, 501, 506, 600, 601, 602, 604 makes send raise
\* UnhandledResponseError carrying the whole raw reply, with no retry.
C9_UnhandledRaised ==
    [][(/\ Reads(ReplyCodes \ {505, 598, 555, 502, 501, 506, 600, 601, 602, 604})
        /\ NotHandled)
       => /\ RaisesNow("UnhandledResponseError", got'.raw)
          /\ _session' = _session
          /\ slept' = slept]_vars

C9_Witness ==
    /\ outcome = Raised("UnhandledResponseError", MkReply(999, "", ""))
    /\ stack = <<>>
    /\ sent = 1

\* C10: Authenticate sets the session token exactly when the reply is 200 or
\* 201, to the token of that reply; 503 raises ClientOutdatedError and 504
\* raises ClientBannedError with the reason the server gave, and both leave
\* the token as it was.  No other step of an AUTH request touches the token.
C10_AuthSetsSession ==
    [][/\ (Reads(ReplyCodes) /\ Top.cb.name = "auth")
          => IF got'.raw.code \in {200, 201}
             THEN /\ _session' = got'.raw.head[1]
                  /\ Len(stack) = 1
                        => /\ stack' = <<>>
                           /\ outcome' = Returned([session |-> got'.raw.head[1]],
                                                  got'.raw.code)
             ELSE /\ _session' = _session
                  /\ got'.raw.code = 503
                        => RaisesNow("ClientOutdatedError", <<>>)
                  /\ got'.raw.code = 504
                        => RaisesNow("ClientBannedError", <<got'.raw.head[4]>>)
       /\ (stack # <<>> /\ Top.cb.name = "auth" /\ ~Reads(ReplyCodes))
          => _session' = _session
       /\ (stack = <<>> /\ stack' # <<>> /\ Top'.cb.name = "auth")
          => _session' = _session]_vars

\* auth() returned after a 201 reply and the token of that reply is current
C10_Witness ==
    /\ outcome = Returned([session |-> "tokB"], 201)
    /\ _session = "tokB"
    /\ lastpkt.command = "AUTH"
    /\ sent = 1

\* an operation is called
Called(command) == stack = <<>> /\ stack' # <<>> /\ Top'.command = command

\* C11: LOGOUT clears the session token whenever its reply is 203 or 403, and
\* returns; once logout() has returned the token is empty, it stays empty
\* until auth() reads a 200/201 or restore_session() is called, and while it
\* is empty every command outside the public ones fails with the
\* authenticate-first ValueError, sending nothing.
C11_LogoutClearsSession ==
    [][/\ (Reads({203, 403}) /\ Top.cb.name = "logout")
          => /\ _session' = ""
             /\ OnlyResendsAbove(0)
                   => /\ stack' = <<>>
                      /\ outcome'.kind = "return"
                      /\ outcome'.code = got'.raw.code
       /\ (stack = <<>> /\ outcome.kind = "return" /\ lastpkt.command = "LOGOUT")
          => _session = ""
       /\ (_session = "" /\ _session' # "")
          => \/ Reads({200, 201}) /\ Top.cb.name = "auth"
             \/ Called("ENCODING")
       /\ (/\ Stepped
           /\ Top.pc = "start"
           /\ Top.command \notin PUBLIC_COMMANDS
           /\ _session = "")
          => RaisesNow("ValueError", "auth first")]_vars

\* logout() of a logged-in client was answered 403 and returned, and the
\* token is gone
C11_Witness ==
    /\ stack = <<>>
    /\ outcome.kind = "return"
    /\ outcome.code = 403
    /\ lastpkt.command = "LOGOUT"
    /\ lastpkt.args["s"] \in Tokens
    /\ _session = ""

\* C12: ENCRYPT sets the encrypted flag and builds the cipher from
\* api_key + salt exactly when its reply is 209; on 309, 509 or 394 it returns
\* and leaves flag and cipher as they were; no other step changes either.
\* Once the flag is set every datagram sent is encrypted under the cipher's
\* key, and a reply reaches a handler only after it decrypted under that key.
C12_EncryptEnables ==
    [][/\ (Reads(ReplyCodes) /\ Top.cb.name = "encrypt")
          => IF got'.raw.code = 209
             THEN /\ _encryptedsession'
                  /\ aes' = <<Top.cb.captured.api_key, got'.raw.head[1]>>
             ELSE /\ _encryptedsession' = _encryptedsession
                  /\ aes' = aes
                  /\ (got'.raw.code \in {309, 509, 394} /\ OnlyResendsAbove(0))
                        => /\ stack' = <<>>
                           /\ outcome'.kind = "return"
                           /\ outcome'.code = got'.raw.code
       /\ (_encryptedsession' # _encryptedsession \/ aes' # aes)
          => Reads({209}) /\ Top.cb.name = "encrypt"
       /\ (Stepped /\ Top.pc = "start" /\ sent' = sent + 1)
          => lastpkt'.cipher = IF _encryptedsession THEN aes ELSE <<>>
       /\ (Stepped /\ Top.pc = "recv" /\ inbox # <<>>)
          => IF got'.cipher = (IF _encryptedsession THEN aes ELSE <<>>)
             THEN got'.raw.code \in ReplyCodes
             ELSE RaisesNow("ValueError", "undecodable reply")]_vars

\* after a 209 with saltB a CALENDAR was sent encrypted under key + saltB and
\* its reply, encrypted under the same key, was decrypted and handled
C12_Witness ==
    /\ _encryptedsession
    /\ aes = <<"key", "saltB">>
    /\ lastpkt.command = "CALENDAR"
    /\ lastpkt.cipher = <<"key", "saltB">>
    /\ got.cipher = <<"key", "saltB">>
    /\ outcome.kind = "return"
    /\ outcome.code = 297

\* C13: the encryption ends with the session: when LOGOUT is answered 203 or
\* 403 the encrypted flag is cleared, so that the next datagram goes out as
\* plain text.
C13_LogoutEndsEncryption ==
    [][(Reads({203, 403}) /\ Top.cb.name = "logout") => ~_encryptedsession']_vars

\* a cache or data operation is called
Calls(op) ==
    /\ stack = <<>>
    /\ pending' = pending
    /\ inbox' = inbox
    /\ call'.op = op

\* the stored document of a key as restore() shows it, and whether it exists
Stored(st, collection, id) ==
    IF id \in DOMAIN st[collection]
    THEN [f \in DOMAIN st[collection][id] \ {"_id"} |-> st[collection][id][f]]
    ELSE <<>>

\* C16: with a live cache, update(collection, id, data) merges: after it the
\* document holds every field of data with the value given, updated_at, and
\* every field it held before that data does not name, unchanged, and nothing
\* else; update returns that document, other documents are untouched, and
\* restore returns the stored document as it is.  So after any sequence of
\* updates restore shows the latest value of every field ever written.
C16_UpdateMerges ==
    [][/\ (Calls("update") /\ _db' = "live")
          => LET a == call'.args
                 old == Stored(store, a.collection, a.id)
                 new == Stored(store', a.collection, a.id)
             IN  /\ a.id \in DOMAIN store'[a.collection]
                 /\ DOMAIN new = DOMAIN old \cup DOMAIN a.data \cup {"updated_at"}
                 /\ \A f \in DOMAIN a.data : new[f] = a.data[f]
                 /\ \A f \in DOMAIN old \ (DOMAIN a.data \cup {"updated_at"}) :
                        new[f] = old[f]
                 /\ outcome' = Returned(new, 0)
                 /\ \A c \in Collections : \A i \in DOMAIN store[c] :
                        (c # a.collection \/ i # a.id)
                        => /\ i \in DOMAIN store'[c]
                           /\ store'[c][i] = store[c][i]
       /\ (Calls("restore") /\ _db' = "live")
          => /\ store' = store
             /\ outcome' = Returned(Stored(store, call'.args.collection,
                                           call'.args.id), 0)]_vars

\* year was written first, an update that names only type came later, and
\* the document returned holds both
C16_Witness ==
    /\ call.op = "update"
    /\ call.args.id = 1
    /\ call.args.data = [type |-> "TV"]
    /\ outcome = Returned([year |-> "2001", type |-> "TV", updated_at |-> "now"], 0)
    /\ 1 \in DOMAIN store["ANIME"]
    /\ store["ANIME"][1] =
          [_id |-> 1, year |-> "2001", type |-> "TV", updated_at |-> "now"]

\* the fields that the bits of an anime mask ask for
Requested(amask) == {lookup[b].text : b \in amask}

\* C14: when anime() is called with an aid, with the cache in use and live,
\* and the cached document of the aid holds every field the mask asks for, the
\* call returns that document with code 230 and sends no datagram: no
\* send() is entered, nothing reaches the transport and the cache is left as
\* it was.
C14_FullyCachedShortCircuit ==
    [][(/\ Calls("anime")
        /\ call'.args.aid # 0
        /\ call'.args.use_cache
        /\ _db' = "live"
        /\ call'.args.aid \in DOMAIN store["ANIME"]
        /\ Requested(call'.args.amask)
              \subseteq DOMAIN store["ANIME"][call'.args.aid])
       => /\ stack' = <<>>
          /\ sent' = 0
          /\ lastpkt' = NoPacket
          /\ outcome'.kind = "return"
          /\ outcome'.code = 230
          /\ outcome'.data = Stored(store, "ANIME", call'.args.aid)
          /\ store' = store]_vars

\* year and episodes of aid 1 are cached, and a call that asks for both
\* returned them with 230 without sending
C14_Witness ==
    /\ call.op = "anime"
    /\ call.args.aid = 1
    /\ call.args.use_cache
    /\ call.args.amask = {39, 53}
    /\ stack = <<>>
    /\ sent = 0
    /\ outcome.kind = "return"
    /\ outcome.code = 230
    /\ outcome.data = [year |-> "1999", episodes |-> 26, updated_at |-> "now"]

\* the value of each field as the server holds it, converted
AnimeValues == (53 :> "1999") @@ (39 :> 26)

\* C15: anime() was called with an aid for which the cache holds some of the
\* fields asked for, so the mask sent is a part of the mask given, and the
\* 230 that answers the mask sent is read: every field of the mask sent is
\* then stored under its own name with the value the server sent for it, and
\* the cached fields that were not asked of the server keep their values.
C15_DecodedAgainstSentMask ==
    [][(/\ Reads({230})
        /\ Top.cb.name = "anime"
        /\ Top.cb.captured.aid # 0
        /\ _db = "live"
        /\ Top.args.amask # {}
        /\ Top.args.amask # Top.cb.captured.amask
        /\ got'.raw = MkData(230, AnimeLines[Top.args.amask]))
       => LET aid == Top.cb.captured.aid
              old == Stored(store, "ANIME", aid)
              new == Stored(store', "ANIME", aid)
          IN  /\ \A b \in Top.args.amask :
                    /\ lookup[b].text \in DOMAIN new
                    /\ new[lookup[b].text] = AnimeValues[b]
              /\ \A f \in DOMAIN old \ (Requested(Top.args.amask) \cup {"updated_at"}) :
                    /\ f \in DOMAIN new
                    /\ new[f] = old[f]]_vars

\* a call returned data with a code without entering send()
ShortCircuits(data, code) ==
    /\ stack' = <<>>
    /\ sent' = 0
    /\ lastpkt' = NoPacket
    /\ store' = store
    /\ outcome'.kind = "return"
    /\ outcome'.code = code
    /\ outcome'.data = data

\* C19: a call that the live cache satisfies returns the cached document
\* without sending, with 230 from anime(), 233 from animedesc(), creator() and
\* episode(), and 235 from character().
C19_ShortCircuitCodes ==
    [][/\ (/\ Calls("anime")
           /\ call'.args.use_cache
           /\ _db' = "live"
           /\ call'.args.aid \in DOMAIN store["ANIME"]
           /\ Requested(call'.args.amask)
                 \subseteq DOMAIN store["ANIME"][call'.args.aid])
          => ShortCircuits(Stored(store, "ANIME", call'.args.aid), 230)
       /\ (/\ Calls("animedesc")
           /\ call'.args.use_cache
           /\ _db' = "live"
           /\ DescId(call'.args.aid, call'.args.part) \in DOMAIN store["ANIMEDESC"])
          => ShortCircuits(Stored(store, "ANIMEDESC",
                                  DescId(call'.args.aid, call'.args.part)), 233)
       /\ (/\ Calls("creator")
           /\ call'.args.use_cache
           /\ _db' = "live"
           /\ call'.args.creatorid \in DOMAIN store["CREATOR"])
          => ShortCircuits(Stored(store, "CREATOR", call'.args.creatorid), 233)
       /\ (/\ Calls("episode")
           /\ call'.args.use_cache
           /\ _db' = "live"
           /\ call'.args.eid \in DOMAIN store["EPISODE"])
          => ShortCircuits(Stored(store, "EPISODE", call'.args.eid), 233)
       /\ (/\ Calls("character")
           /\ call'.args.use_cache
           /\ _db' = "live"
           /\ call'.args.charid \in DOMAIN store["CHARACTER"])
          => ShortCircuits(Stored(store, "CHARACTER", call'.args.charid), 235)]_vars

\* creator 1 is cached and creator(1) returned it with 233 without sending
C19_Witness ==
    /\ call.op = "creator"
    /\ call.args.use_cache
    /\ stack = <<>>
    /\ sent = 0
    /\ outcome.kind = "return"
    /\ outcome.code = 233
    /\ outcome.data = Stored(store, "CREATOR", 1)
    /\ outcome.data.creator_name_kanji = "kanji"

\* a call failed with ValueError without entering send()
RejectsInput ==
    /\ stack' = <<>>
    /\ sent' = 0
    /\ lastpkt' = NoPacket
    /\ store' = store
    /\ outcome'.kind = "raise"
    /\ outcome'.error = "ValueError"

\* C20: anime() with neither aid nor aname, episode() with none of eid, aid
\* and epno, aname and epno, updated() with both or neither of age and time,
\* and group() with neither gid nor gname raise ValueError, and nothing is
\* sent.
C20_InputValidated ==
    [][/\ (Calls("anime") /\ call'.args.aid = 0 /\ call'.args.aname = "")
          => RejectsInput
       /\ (/\ Calls("episode")
           /\ call'.args.eid = 0
           /\ ~(call'.args.aid # 0 /\ call'.args.epno # "")
           /\ ~(call'.args.aname # "" /\ call'.args.epno # ""))
          => RejectsInput
       /\ (/\ Calls("updated")
           /\ (call'.args.age # 0) = (call'.args.time # 0))
          => RejectsInput
       /\ (Calls("group") /\ call'.args.gid = 0 /\ call'.args.gname = "")
          => RejectsInput]_vars

\* a logged-in caller gave updated() both age and time and got ValueError
C20_Witness ==
    /\ _session # ""
    /\ call.op = "updated"
    /\ call.args.age # 0
    /\ call.args.time # 0
    /\ stack = <<>>
    /\ sent = 0
    /\ outcome.kind = "raise"
    /\ outcome.error = "ValueError"
    /\ outcome.info = "Exactly one of age or time must be provided."

\* the code of the reply with data of each cached operation
SuccessCode ==
    [anime |-> 230, animedesc |-> 233, character |-> 235, creator |-> 245,
     episode |-> 240, group |-> 250]

\* a field that the reply with data of each cached operation gives
OwnField ==
    [anime |-> "year", animedesc |-> "description", character |-> "charid",
     creator |-> "creatorid", episode |-> "eid", group |-> "gid"]

\* one of the cached operations is called
CallsCached == \E op \in DOMAIN SuccessCode : Calls(op)

\* the active frame of a cached operation reads its reply with data, one
\* that its handler converts: the handler of episode() raises ValueError on
\* the number of a regular episode, with or without the database
ReadsData ==
    /\ Reads({SuccessCode[op] : op \in DOMAIN SuccessCode})
    /\ Top.cb.name \in DOMAIN SuccessCode
    /\ got'.raw.code = SuccessCode[Top.cb.name]
    /\ got'.raw.body # <<RegularEpisodeLine>>

\* C17: while the database cannot be reached, restore() returns nothing for
\* every key; update() returns the data it was given, unchanged, and stores
\* nothing; and anime(), animedesc(), character(), creator(), episode() and
\* group() go to the network whatever use_cache says, and when the reply with
\* data is read they return what the reply holds, with its code, and nothing
\* is stored.
C17_DegradedCache ==
    [][/\ (Calls("restore") /\ mongo # "up")
          => /\ outcome'.kind = "return"
             /\ outcome'.data = <<>>
             /\ store' = store
       /\ (Calls("update") /\ mongo # "up")
          => /\ outcome'.kind = "return"
             /\ outcome'.data = call'.args.data
             /\ store' = store
       /\ (CallsCached /\ mongo # "up")
          => /\ Len(stack') = 1
             /\ Top'.pc = "start"
             /\ store' = store
       /\ (ReadsData /\ mongo # "up" /\ OnlyResendsAbove(0))
          => /\ stack' = <<>>
             /\ outcome'.kind = "return"
             /\ outcome'.code = got'.raw.code
             /\ OwnField[Top.cb.name] \in DOMAIN outcome'.data
             /\ "updated_at" \notin DOMAIN outcome'.data
             /\ store' = store]_vars

\* with the database down group(1) was answered 250 and returned the group
\* as the reply gave it, and no document is stored
C17_Witness ==
    /\ mongo = "down"
    /\ _db = "False"
    /\ call.op = "group"
    /\ call.args.use_cache
    /\ stack = <<>>
    /\ sent = 1
    /\ outcome.kind = "return"
    /\ outcome.code = 250
    /\ outcome.data.gid = 1
    /\ outcome.data.grouprelations = <<<<2, 1>>, <<1, 2>>>>
    /\ store["GROUP"] = NoDocs

C21_FilterCached ==
    [][(Calls("filter_cached") /\ call'.args.input \subseteq DOMAIN lookup)
       => LET M == call'.args.input
              aid == call'.args.aid
              cached == aid # 0 /\ _db' = "live" /\ aid \in DOMAIN store["ANIME"]
              held == IF cached THEN DOMAIN Stored(store, "ANIME", aid) ELSE {}
              expected == {b \in M : lookup[b].text \notin held}
          IN  /\ store' = store
              /\ outcome'.kind = "return"
              /\ outcome'.data.mask = expected
              /\ outcome'.data.mask \subseteq M
              /\ ~cached => outcome'.data.mask = M
              /\ filter_cached(outcome'.data.mask, aid).mask = outcome'.data.mask]_vars

\* year and type of aid 1 are cached, and of year, type and episodes the
\* filter left episodes
C21_Witness ==
    /\ call.op = "filter_cached"
    /\ call.args.aid = 1
    /\ call.args.input = {39, 52, 53}
    /\ 1 \in DOMAIN store["ANIME"]
    /\ {"year", "type"} \subseteq DOMAIN store["ANIME"][1]
    /\ outcome.kind = "return"
    /\ outcome.data.mask = {39}

\* the value of each field once converted
FieldValue ==
    (53 :> "1999") @@ (51 :> <<"1", "2">>) @@ (39 :> 26) @@ (24 :> TRUE)
    @@ (18 :> <<2, 1>>)

\* parse_response returned exactly the fields of the bits given, each with
\* the value the server sent for its bit
ReturnsFields(bits) ==
    /\ outcome'.kind = "return"
    /\ DOMAIN outcome'.data = {lookup[b].text : b \in bits}
    /\ \A b \in bits : outcome'.data[lookup[b].text] = FieldValue[b]

\* C22 as stated: for every set S of the 56 bit positions, parse_response of
\* the mask of S and the line of the len(S) values of S, highest bit first,
\* returns the fields that the bits of S name, each with the value sent for
\* its bit, and no other field.
C22_AnyOfThe56Bits ==
    [][(/\ Calls("parse_response")
        /\ call'.args.input \subseteq MaskRange
        /\ call'.args.values = WireLine(call'.args.input))
       => ReturnsFields(call'.args.input \cap DOMAIN lookup)]_vars

\* C22: the same for every set S of the bit positions that name a field, 40
\* of the 56: the first value of the line goes to the highest bit of S, the
\* last to the lowest.
C22_MaskRoundTrip ==
    [][(/\ Calls("parse_response")
        /\ call'.args.input \subseteq DOMAIN lookup
        /\ call'.args.values = WireLine(call'.args.input))
       => ReturnsFields(call'.args.input)]_vars

\* the line "1999|1,2|26|1|2,1" was parsed against the mask of its five
\* bits
C22_Witness ==
    /\ call.op = "parse_response"
    /\ call.args.input = {53, 51, 39, 24, 18}
    /\ call.args.values = <<"1999", "1,2", "26", "1", "2,1">>
    /\ outcome.kind = "return"
    /\ outcome.data =
          [year |-> "1999", related_aid_list |-> <<"1", "2">>, episodes |-> 26,
           is_18_restricted |-> TRUE, tag_id_list |-> <<2, 1>>]

\* the k lowest bits of a mask
Lowest(bits, k) == {b \in bits : Cardinality({c \in bits : c < b}) < k}

\* every part of the line converts under the conversion of the bit that takes it
PartsConvert(input, parts) ==
    LET up == Ascending(Lowest(input, Len(parts)))
    IN  \A j \in DOMAIN up :
           Converted(lookup[up[j]].function, parts[Len(parts) + 1 - j]).ok

C24_KeyResolution ==
    [][\A username \in {"", "user"}, api_key \in ApiKeys \cup {""} :
          CallEncrypt(username, api_key)
          => LET key == IF api_key # "" THEN api_key
                        ELSE settings.ANIDB_ENCRYPT_API_KEY
                 user == IF username # "" THEN username
                         ELSE settings.ANIDB_USERNAME
             IN  /\ (key # "" /\ user # "")
                       => /\ stack' # <<>>
                          /\ Top'.command = "ENCRYPT"
                          /\ Top'.cb.captured.api_key = key
                 /\ key = ""
                       => /\ outcome'.kind = "raise"
                          /\ outcome'.error = "ValueError"
                 /\ outcome'.kind = "raise"
                       => stack' = <<>> /\ sent' = 0 /\ pending' = pending]_vars

\* C25: once AUTH announcing the encoding E in its enc parameter is answered
\* with 200 or 201, E is the encoding of the module, and every datagram sent
\* is encoded with the encoding of the module; only restore_session() sets
\* another one.
C25_EncodingKept ==
    [][/\ (Reads({200, 201}) /\ Top.cb.name = "auth")
          => _encoding' = Top.args.enc
       /\ (Stepped /\ Top.pc = "start" /\ sent' = sent + 1)
          => lastpkt'.encoding = _encoding
       /\ (_encoding' # _encoding /\ ~(Reads({200, 201}) /\ Top.cb.name = "auth"))
          => stack = <<>> /\ Top'.command = "ENCODING"]_vars

\* the number an episode number stands for, its prefix of special characters
\* left out
NumericPortion == [t \in {"S1", "1"} |-> 1]

\* C26: the episode a 240 reply describes is returned with episode_number
\* the number in its epno, the prefix of a special dropped: 1 for S1 and 1 for
\* the bare 1.
C26_EpisodeNumber ==
    [][(Reads({240}) /\ Top.cb.name = "episode" /\ OnlyResendsAbove(0))
       => /\ outcome'.kind = "return"
          /\ outcome'.data.episode_number =
                NumericPortion[SplitBar[SecondLine(got'.raw)][6]]]_vars

\* the number of records of a reply that come before its first cut record
RECURSIVE WholeBefore(_)
WholeBefore(lines) ==
    IF lines = <<>> \/ Head(lines) = CutStatusLine THEN 0
    ELSE 1 + WholeBefore(Tail(lines))

\* C27: on 225 groupstatus() returns, in the order of the reply, the records
\* that come before the first record of fewer than 7 fields, and none after
\* it; truncated is true exactly when the reply holds such a record.
C27_Truncated ==
    [][(Reads({225}) /\ Top.cb.name = "groupstatus" /\ OnlyResendsAbove(0))
       => LET lines == got'.raw.body
              n == WholeBefore(lines)
              list == outcome'.data.status_list
          IN  /\ stack' = <<>>
              /\ outcome'.kind = "return"
              /\ outcome'.code = 225
              /\ Len(list) = n
              /\ \A i \in 1..n :
                    /\ list[i].group_id = IF lines[i] = StatusLine THEN 1 ELSE 2
                    /\ list[i].group_name =
                          IF lines[i] = StatusLine THEN "name" ELSE "short"
                    /\ list[i].episode_range = "1-26"
              /\ outcome'.data.truncated = (\E i \in DOMAIN lines : lines[i] = CutStatusLine)
              /\ outcome'.data.truncated = (n < Len(lines))]_vars

\* a reply of a whole record, a cut one and a whole one gave the first record
\* alone, marked truncated
C27_Witness ==
    /\ call.op = "groupstatus"
    /\ got.raw.code = 225
    /\ got.raw.body = <<StatusLine, CutStatusLine, OtherStatusLine>>
    /\ outcome.kind = "return"
    /\ Len(outcome.data.status_list) = 1
    /\ outcome.data.status_list[1].group_id = 1
    /\ outcome.data.truncated

\* C28: pad() returns a text whose length is a positive multiple of 16 and
\* greater than the length of the text it was given, and unpad() of what
\* pad() returned is the text pad() was given, for every length from 0 to
\* MaxLen (0, 1, 15, 16, 17 and 31 among them).
C28_PadRoundTrip ==
    [][/\ Calls("pad")
          => /\ outcome'.kind = "return"
             /\ Len(outcome'.data) > 0
             /\ Len(outcome'.data) % 16 = 0
             /\ Len(outcome'.data) > Len(call'.args.s)
       /\ (call.op = "pad" /\ Calls("unpad"))
          => /\ outcome'.kind = "return"
             /\ outcome'.data = call.args.s]_vars

\* a text of 16 letters was padded to 32 characters and unpadded to itself
C28_Witness ==
    /\ call.op = "unpad"
    /\ Len(call.args.s) = 32
    /\ outcome.kind = "return"
    /\ outcome.data = [i \in 1..16 |-> 65]

\* C29: with the cipher set up, encrypt() of a text, ASCII or not, hands the
\* cipher a whole number of blocks of 16 bytes and returns, and decrypt() of
\* what it returned, with the same encoding, is the text.
C29_EncryptRoundTrip ==
    [][/\ (Calls("encrypt") /\ aes # NoCipher /\ call'.args.encoding = "UTF8")
          => /\ outcome'.kind = "return"
             /\ Len(outcome'.data.plain) % 16 = 0
       /\ (/\ call.op = "encrypt"
           /\ Calls("decrypt")
           /\ call'.args.encoding = call.args.encoding)
          => /\ outcome'.kind = "return"
             /\ outcome'.data = call.args.message]_vars

C31_CurrentToken ==
    [][(Stepped /\ Top.pc = "start" /\ sent' = sent + 1 /\ NeedsSession(Top.command))
       => /\ _session # ""
          /\ lastpkt'.args.s = _session
          /\ Top'.args.s = _session
          /\ \A k \in DOMAIN Top.args \ {"s"} : lastpkt'.args[k] = Top.args[k]]_vars

\* after a 501 or 506 and the AUTH it caused, CALENDAR was sent again, third
\* datagram of the call, with the token the module holds
C31_Witness ==
    /\ stack # <<>>
    /\ Len(stack) = 2
    /\ stack[1].pc = "wait_resend"
    /\ Top.pc = "recv"
    /\ sent = 3
    /\ slept = <<>>
    /\ lastpkt.command = "CALENDAR"
    /\ lastpkt.args.s = "tokB"
    /\ _session = "tokB"

\* the cache collection of each cached operation
CollectionOf ==
    [anime |-> "ANIME", animedesc |-> "ANIMEDESC", character |-> "CHARACTER",
     creator |-> "CREATOR", episode |-> "EPISODE", group |-> "GROUP"]

\* the key under which the reply of a call by identifier is stored
KeyOf(c) ==
    CASE c.op = "anime" -> c.args.aid
      [] c.op = "animedesc" -> DescId(c.args.aid, c.args.part)
      [] c.op = "character" -> c.args.charid
      [] c.op = "creator" -> c.args.creatorid
      [] c.op = "episode" -> c.args.eid
      [] c.op = "group" -> c.args.gid

\* the operation called last returned the reply with data that it received
\* from the server
SucceededOverNetwork(op) ==
    /\ call.op = op
    /\ outcome.kind = "return"
    /\ outcome.code = SuccessCode[op]
    /\ sent > 0

\* C32: with a live cache, when animedesc(), character(), creator(),
\* episode(eid) or group(gid) has just returned the reply with data that the
\* server sent, the same call made again at once with use_cache true ends in
\* the call itself, with the stored fields of that id as its result, and no
\* datagram is sent.
C32_RepeatServedFromCache ==
    [][\A op \in {"animedesc", "character", "creator", "episode", "group"} :
          (/\ Calls(op)
           /\ SucceededOverNetwork(op)
           /\ _db = "live"
           /\ call'.args = [call.args EXCEPT !.use_cache = TRUE])
          => /\ stack' = <<>>
             /\ sent' = 0
             /\ lastpkt' = NoPacket
             /\ store' = store
             /\ outcome'.kind = "return"
             /\ KeyOf(call') \in DOMAIN store[CollectionOf[op]]
             /\ outcome'.data = Stored(store, CollectionOf[op], KeyOf(call'))
             /\ OwnField[op] \in DOMAIN outcome'.data]_vars


\* group(1) found group 1 in the cache that the reply to an earlier group(1)
\* filled, and returned it without sending
C32_Witness ==
    /\ call.op = "group"
    /\ call.args.gid = 1
    /\ call.args.use_cache
    /\ stack = <<>>
    /\ sent = 0
    /\ lastpkt = NoPacket
    /\ _db = "live"
    /\ outcome.kind = "return"
    /\ 1 \in DOMAIN store["GROUP"]
    /\ outcome.data = Stored(store, "GROUP", 1)
    /\ outcome.data.gid = 1


\* the call gives the identifier of the entity (anime() and episode() can also
\* be called by name, group() by name, and then 0 stands for no identifier)
ByIdentifier(c) ==
    CASE c.op = "anime" -> c.args.aid # 0
      [] c.op = "episode" -> c.args.eid # 0
      [] c.op = "group" -> c.args.gid # 0
      [] OTHER -> TRUE

\* C33: a call of anime(), animedesc(), character(), creator(), episode() or
\* group() by identifier with use_cache false does not end in the call
\* itself with a result: it enters send() with its command, for every mask
\* and whatever the cache holds.
C33_NoCacheWhenDisabled ==
    [][\A op \in DOMAIN SuccessCode :
          (/\ Calls(op)
           /\ ~call'.args.use_cache
           /\ ByIdentifier(call'))
          => /\ outcome' = NoOutcome
             /\ Len(stack') = 1
             /\ stack'[1].command = CollectionOf[op]
             /\ stack'[1].pc = "start"]_vars


\* the codes with which the server says that there is no such entity
NoSuchCodes == {330, 335, 345, 340, 350}

\* C34: the documents of the cache change only in the step in which the
\* handler of anime(), animedesc(), character(), creator(), episode() or
\* group() reads the reply with data of its command and returns, and then only
\* in the collection of that command; a reply with 330, 335, 345, 340 or 350,
\* a step that ends the call by raising, and a call that the cache satisfies
\* leave every document as it was.
C34_CacheWrittenOnSuccess ==
    [][/\ (store' # store)
          => /\ ReadsData
             /\ outcome'.kind # "raise"
             /\ \A c \in Collections \ {CollectionOf[Top.cb.name]} :
                   store'[c] = store[c]
       /\ Reads(NoSuchCodes) => store' = store
       /\ (stack' = <<>> /\ outcome'.kind = "raise" /\ (stack # <<>> \/ CallsCached))
          => store' = store
       /\ (CallsCached /\ stack' = <<>>) => store' = store]_vars

\* creator(1) was answered 345 and returned its message while the cache, which
\* holds group 1, has no creator
C34_Witness ==
    /\ call.op = "creator"
    /\ stack = <<>>
    /\ sent > 0
    /\ got.raw.code = 345
    /\ outcome.kind = "return"
    /\ outcome.code = 345
    /\ store["CREATOR"] = <<>>
    /\ 1 \in DOMAIN store["GROUP"]


\* restore_session() is called: the caller enters send() with ENCODING, which
\* no other operation of the session sends
CallsRestoreSession ==
    /\ stack = <<>>
    /\ Len(stack') = 1
    /\ stack'[1].command = "ENCODING"
    /\ stack'[1].pc = "start"

C36_CipherReady ==
    /\ _encryptedsession <=> (aes # NoCipher)
    /\ _encryptedsession => (aes[1] \in ApiKeys /\ aes[2] \in Salts)
    /\ (lastpkt.command = "ENCRYPT" /\ got.raw.code = 209)
          => (_encryptedsession /\ aes[2] = got.raw.head[1])
    /\ (lastpkt.cipher # NoCipher \/ (got.cipher # NoCipher /\ got.raw # NoReply))
          => (_encryptedsession /\ aes # NoCipher)
    /\ lastpkt.cipher # NoCipher => (lastpkt.cipher[1] \in ApiKeys /\ lastpkt.cipher[2] \in Salts)

\* ENCRYPT was sent inside a session encrypted with saltB and answered 209
\* with saltA: the cipher is now the one of saltA
C36_Witness ==
    /\ lastpkt.command = "ENCRYPT"
    /\ lastpkt.cipher = <<"key", "saltB">>
    /\ got.raw.code = 209
    /\ got.raw.head[1] = "saltA"
    /\ _encryptedsession
    /\ aes = <<"key", "saltA">>


\* C37: with one caller, the datagram that a send cycle reads and hands to the
\* handler is the server's reply to the datagram sent in that same cycle,
\* also when an earlier cycle ended with a timeout and its reply came late.
C37_ReplyOfSameCycle ==
    [][(Stepped /\ Top.pc = "recv" /\ inbox # <<>>) => got'.cur]_vars


\* C38: when anime(), animedesc(), character(), creator(), episode() or
\* group() returns a document from the cache, without entering send(), the
\* code it returns is the code of the command's reply with data: 230, 233,
\* 235, 245, 240 and 250.
C38_CacheCodeIsSuccessCode ==
    [][\A op \in DOMAIN SuccessCode :
          (Calls(op) /\ stack' = <<>> /\ outcome'.kind = "return")
          => outcome'.code = SuccessCode[op]]_vars


\* the attempts to log in that a program makes before it gives up, as the
\* claim of C39 has it
LoginAttempts == 5

\* auth() was called and no login was accepted since: every datagram sent
\* is an AUTH, and each but the last was answered with a request to log in
OnlyAuthSent ==
    /\ stack # <<>>
    /\ \A i \in DOMAIN stack : stack[i].command = "AUTH"
    /\ slept = <<>>
    /\ _session = ""

\* C39: while the server answers every AUTH with 501 or 506, no more than 5
\* AUTH datagrams are sent in a row, and the reading of such an answer to
\* the fifth ends the call with ValueError.
C39_AuthGivesUp ==
    [][/\ (Stepped /\ OnlyAuthSent /\ Top.pc = "start" /\ sent' = sent + 1)
          => sent' <= LoginAttempts
       /\ (Reads({501, 506}) /\ OnlyAuthSent /\ sent = LoginAttempts)
          => /\ stack' = <<>>
             /\ outcome'.kind = "raise"
             /\ outcome'.error = "ValueError"]_vars


\* the call finds all it asks for in a live cache
CacheSatisfies(c) ==
    /\ c.args.use_cache
    /\ ByIdentifier(c)
    /\ _db' = "live"
    /\ KeyOf(c) \in DOMAIN store[CollectionOf[c.op]]
    /\ c.op = "anime"
          => Requested(c.args.amask) \subseteq DOMAIN store["ANIME"][KeyOf(c)]

\* C40: the cache is asked before the session is checked.  With an empty
\* session token, a call of anime(), animedesc(), character(), creator(),
\* episode() or group() that the cache satisfies returns the cached document
\* in the call itself; the same call with nothing cached for the identifier
\* enters send(), whose first step ends it with the error that asks to
\* authenticate first, and no datagram is sent.
C40_CacheBeforeSession ==
    [][/\ \A op \in DOMAIN SuccessCode :
             (Calls(op) /\ _session = "" /\ ByIdentifier(call'))
             => IF CacheSatisfies(call')
                THEN /\ stack' = <<>>
                     /\ sent' = 0
                     /\ outcome'.kind = "return"
                     /\ outcome'.data = Stored(store, CollectionOf[op], KeyOf(call'))
                ELSE (KeyOf(call') \notin DOMAIN store[CollectionOf[op]])
                     => /\ Len(stack') = 1
                        /\ stack'[1].command = CollectionOf[op]
                        /\ stack'[1].pc = "start"
                        /\ outcome' = NoOutcome
       /\ (Stepped /\ Top.pc = "start" /\ Top.command \in Collections /\ _session = "")
          => /\ RaisesNow("ValueError", "auth first")
             /\ sent' = 0
             /\ lastpkt' = NoPacket]_vars

\* without a session, group(1) returned the document that the cache holds
\* while the cache has no episode
C40_Witness ==
    /\ _session = ""
    /\ _conn = FALSE
    /\ call.op = "group"
    /\ call.args.use_cache
    /\ stack = <<>>
    /\ sent = 0
    /\ outcome.kind = "return"
    /\ outcome.data = Stored(store, "GROUP", 1)
    /\ outcome.data.gid = 1
    /\ store["EPISODE"] = <<>>

====
